---- MODULE Spec2Model ----
(***************************************************************************)
(* Model of the scan orchestrator of NexusAutoDL (services/scanner.py).    *)
(*                                                                         *)
(* One tick of Scanner.scan_loop is one action.  The body of a tick is     *)
(* written as the sequence of primitive operations the code performs, in   *)
(* source order (TickOps); a tick that completes applies all of them, a    *)
(* tick in which an exception or a KeyboardInterrupt is raised applies the *)
(* operations before the raising one and then the matching except clause.  *)
(*                                                                         *)
(* The environment supplies, per tick, the set of button kinds the         *)
(* detector finds in the captured frame and whether the Vortex window      *)
(* exists.  "Publishing" is a call of Scanner._update_status.              *)
(***************************************************************************)
EXTENDS Integers, Sequences, FiniteSets, TLC

\* ------------------------------------------------------------------ bounds
MaxTicks == 4
MaxLimit == 2
MaxIter  == 2

\* --------------------------------------------------------------- constants
IDLE               == "idle"
WAITING_FOR_VORTEX == "waiting_for_vortex"
VORTEX_CLICKED     == "vortex_clicked"
WAITING_FOR_WEB    == "waiting_for_web"
WEB_CLICKED        == "web_clicked"
HANDLING_POPUP     == "handling_popup"
ERROR              == "error"

ScanState == {IDLE, WAITING_FOR_VORTEX, VORTEX_CLICKED, WAITING_FOR_WEB,
              WEB_CLICKED, HANDLING_POPUP, ERROR}

ButtonType == {"vortex", "website", "wabbajack", "click", "understood", "staging"}

VARIABLES
    cfg,           \* AppConfig: vortex, legacy, wabbajack_retry_limit, max_iterations
    status,        \* Scanner.status (ScanStatus)
    vortex_found,  \* local of scan_loop
    web_clicked,   \* local of scan_loop
    iteration,     \* local of scan_loop
    pc,            \* "new" | "failed" | "init" | "loop" | "returned" | "raised"
    log,           \* observable events of the last action, in order
    lastPub,       \* the status values handed to the last _update_status call
    firstPub,      \* state handed to the first _update_status call of scan_loop
    phase,         \* branch of the state machine taken by the last tick
    outcome,       \* how the last action ended: none | ok | fault | interrupt
    missRun,       \* consecutive completed web-phase ticks without a hit
    calc           \* a call of one of the pure functions: its name, arguments, result

vars == <<cfg, status, vortex_found, web_clicked, iteration, pc, log,
          lastPub, firstPub, phase, outcome, missRun, calc>>

\* ----------------------------------------------------------------- helpers
Ev(e, a, r) == [ev |-> e, arg |-> a, res |-> r]
Op(o, a)    == [op |-> o, arg |-> a]

Snap(st) == [state |-> st.state, current_action |-> st.current_action,
             clicks_count |-> st.clicks_count,
             web_retry_count |-> st.web_retry_count,
             errors |-> st.errors, detections |-> st.detections]

NoPub == [state |-> "none", current_action |-> "none", clicks_count |-> 0,
          web_retry_count |-> 0, errors |-> <<>>, detections |-> <<>>]

\* Effect of one primitive operation on the scanner (s bundles the mutable
\* parts: status, loop locals, and the observation variables).
Apply(s, o) ==
    CASE o.op = "iter"       -> [s EXCEPT !.iteration = @ + 1]
      [] o.op = "capture"    -> [s EXCEPT !.log = Append(@, Ev("capture", "frame", ""))]
      [] o.op = "phase"      -> [s EXCEPT !.phase = o.arg]
      [] o.op = "state"      -> [s EXCEPT !.status.state = o.arg]
      [] o.op = "action"     -> [s EXCEPT !.status.current_action = o.arg]
      [] o.op = "window"     -> [s EXCEPT !.log = Append(@, Ev("window", "Vortex", o.arg))]
      [] o.op = "pad"        -> s
      [] o.op = "detect_hit" -> [s EXCEPT !.log = Append(@, Ev("detect", o.arg, "hit"))]
      [] o.op = "detect_miss"-> [s EXCEPT !.log = Append(@, Ev("detect", o.arg, "miss"))]
      [] o.op = "click"      -> [s EXCEPT !.log = Append(@, Ev("click", o.arg, ""))]
      [] o.op = "count"      -> [s EXCEPT !.status.clicks_count = @ + 1]
      [] o.op = "append"     -> [s EXCEPT !.status.detections = Append(@, o.arg)]
      [] o.op = "pub"        -> [s EXCEPT
                                   !.lastPub = Snap(s.status),
                                   !.firstPub = IF @ = "none" THEN s.status.state ELSE @,
                                   !.log = Append(@, Ev("pub", s.status.state,
                                                        s.status.current_action))]
      [] o.op = "sleep"      -> [s EXCEPT !.log = Append(@, Ev("sleep", o.arg, ""))]
      [] o.op = "retry_zero" -> [s EXCEPT !.status.web_retry_count = 0]
      [] o.op = "retry_inc"  -> [s EXCEPT !.status.web_retry_count = @ + 1]
      [] o.op = "vf"         -> [s EXCEPT !.vortex_found = (o.arg = "true")]
      [] o.op = "wc"         -> [s EXCEPT !.web_clicked = (o.arg = "true")]
      [] o.op = "error"      -> [s EXCEPT !.status.errors = Append(@, o.arg)]
      [] o.op = "caught"     -> [s EXCEPT !.log = Append(@, Ev(o.arg, "", ""))]

\* The states passed through while applying ops to s: element k + 1 is the
\* state after the first k operations.
RECURSIVE Prefixes(_, _, _)
Prefixes(acc, ops, k) ==
    IF k > Len(ops) THEN acc
    ELSE Prefixes(Append(acc, Apply(acc[Len(acc)], ops[k])), ops, k + 1)

\* Apply the first n operations of ops to s.
Run(s, ops, n) == Prefixes(<< s >>, SubSeq(ops, 1, n), 1)[n + 1]

\* Operations that call into a collaborator which may raise an Exception:
\* screen grab, window lookup, BoundingBox construction / pad, detector,
\* click injection.
CanFault(o) == o.op \in {"capture", "window", "pad", "detect_hit", "detect_miss", "click"}

Bool(b) == IF b THEN "true" ELSE "false"


\* ------------------------------------------------------------- scanner.py
\* Mutant of ClickDetection: the click is counted but not published.
ClickDetection_NoPublish(kind) ==
    << Op("click", kind), Op("count", ""), Op("append", kind) >>

\* Scanner._click_detection: inject the click, count it, record it, publish.
ClickDetection(kind) ==
    << Op("click", kind), Op("count", ""), Op("append", kind), Op("pub", "") >>

\* Mutant of InitialState: the loop always starts by waiting for Vortex.
InitialState_AlwaysVortex(c) == WAITING_FOR_VORTEX

\* scan_loop prologue: the initial state.
InitialState(c) == IF c.vortex THEN WAITING_FOR_VORTEX ELSE WAITING_FOR_WEB

\* Mutant of StartOps: the status is published before the state is set.
StartOps_PublishBeforeState(c) == << Op("pub", ""), Op("state", InitialState(c)) >>

StartOps(c) == << Op("state", InitialState(c)), Op("pub", "") >>

Detect(kind, frame) ==
    IF kind \in frame THEN Op("detect_hit", kind) ELSE Op("detect_miss", kind)

\* _handle_vortex_state, legacy popup check: 'understood' first, then
\* 'staging'; a hit clicks the popup, waits retry_delay and ends the handler.
PopupOrder == << "understood", "staging" >>

PopupAction(kind) ==
    IF kind = "understood" THEN "Clicking 'Understood' button"
    ELSE "Clicking 'Staging' button"

PopupHitOps(kind) ==
    << Op("state", HANDLING_POPUP), Op("action", PopupAction(kind)), Op("pub", "") >>
    \o ClickDetection(kind)
    \o << Op("sleep", "retry_delay") >>

\* Index in PopupOrder of the first popup present in the frame, 0 if none.
\* Mutant of FirstPopup: 'staging' takes precedence over 'understood'.
FirstPopup_StagingFirst(frame) ==
    IF PopupOrder[2] \in frame THEN 2
    ELSE IF PopupOrder[1] \in frame THEN 1 ELSE 0

FirstPopup(frame) ==
    IF PopupOrder[1] \in frame THEN 1
    ELSE IF PopupOrder[2] \in frame THEN 2 ELSE 0

PopupOps(frame) ==
    LET i == FirstPopup(frame) IN
    IF i = 0 THEN << Detect(PopupOrder[1], frame), Detect(PopupOrder[2], frame) >>
    ELSE [k \in 1..i |-> Detect(PopupOrder[k], frame)] \o PopupHitOps(PopupOrder[i])

VortexSearchOps(frame) ==
    IF "vortex" \in frame
    THEN << Detect("vortex", frame),
            Op("action", "Clicking Vortex download button"), Op("pub", "") >>
         \o ClickDetection("vortex")
    ELSE << Detect("vortex", frame),
            Op("action", "Searching for Vortex button..."), Op("pub", "") >>

\* Return value of _handle_vortex_state.
VortexReturns(c, frame, win) ==
    /\ win
    /\ ~(c.legacy /\ FirstPopup(frame) # 0)
    /\ "vortex" \in frame

\* Mutant of VortexHandlerOps: no early return when the window is missing.
VortexHandlerOps_NoEarlyReturn(c, frame, win) ==
    << Op("window", IF win THEN "found" ELSE "none") >>
    \o (IF c.legacy /\ FirstPopup(frame) # 0
        THEN PopupOps(frame)
        ELSE (IF c.legacy THEN PopupOps(frame) ELSE << >>)
             \o VortexSearchOps(frame))

VortexHandlerOps(c, frame, win) ==
    IF ~win
    THEN << Op("window", "none"),
            Op("action", "Waiting for Vortex window..."), Op("pub", "") >>
    ELSE << Op("window", "found"), Op("pad", "") >>
         \o (IF c.legacy /\ FirstPopup(frame) # 0
             THEN PopupOps(frame)
             ELSE (IF c.legacy THEN PopupOps(frame) ELSE << >>)
                  \o VortexSearchOps(frame))

\* _handle_web_state
\* Mutant of WebTargets: the wabbajack fallback is tried first.
WebTargets_WabbajackFirst(c) ==
    IF c.vortex THEN << "website" >> ELSE << "wabbajack", "website" >>

WebTargets(c) == IF c.vortex THEN << "website" >> ELSE << "website", "wabbajack" >>

WebLabel(kind) ==
    IF kind = "website" THEN "Clicking website download button"
    ELSE "Clicking Wabbajack download button"

\* Index in targets of the first target present in the frame, 0 if none.
RECURSIVE FirstTarget(_, _, _)
FirstTarget(targets, frame, i) ==
    IF i > Len(targets) THEN 0
    ELSE IF targets[i] \in frame THEN i
    ELSE FirstTarget(targets, frame, i + 1)

WebHitOps(kind) ==
    << Op("action", WebLabel(kind)), Op("pub", "") >>
    \o ClickDetection(kind)
    \o << Op("retry_zero", "") >>

\* Mutant of WebMissOps: the counter is incremented first and reset in the
\* tick in which it reaches the limit.
WebMissOps_IncrementThenCheck(c, st) ==
    IF st.web_retry_count + 1 >= c.wabbajack_retry_limit
    THEN << Op("retry_inc", ""), Op("action", "Restarting (button not found)"),
            Op("retry_zero", ""), Op("pub", "") >>
    ELSE << Op("retry_inc", ""),
            Op("action", "Searching for web button... (attempt n/limit)"),
            Op("pub", "") >>

\* Mutant of WebMissOps: the counter is reset only once it exceeds the limit.
WebMissOps_ResetAboveLimit(c, st) ==
    IF st.web_retry_count > c.wabbajack_retry_limit
    THEN << Op("action", "Restarting (button not found)"),
            Op("retry_zero", ""), Op("pub", "") >>
    ELSE << Op("retry_inc", ""),
            Op("action", "Searching for web button... (attempt n/limit)"),
            Op("pub", "") >>

WebMissOps(c, st) ==
    IF st.web_retry_count >= c.wabbajack_retry_limit
    THEN << Op("action", "Restarting (button not found)"),
            Op("retry_zero", ""), Op("pub", "") >>
    ELSE << Op("retry_inc", ""),
            Op("action", "Searching for web button... (attempt n/limit)"),
            Op("pub", "") >>

WebReturns(c, frame) == FirstTarget(WebTargets(c), frame, 1) # 0

WebHandlerOps(c, st, frame) ==
    LET targets == WebTargets(c)
        i == FirstTarget(targets, frame, 1) IN
    IF i # 0
    THEN [k \in 1..i |-> Detect(targets[k], frame)] \o WebHitOps(targets[i])
    ELSE [k \in 1..Len(targets) |-> Detect(targets[k], frame)] \o WebMissOps(c, st)

\* _handle_click_dialog_state
\* Mutant of DialogReturns: the handler reports completion on a miss too.
DialogReturns_AlwaysTrue(c, frame) == TRUE

DialogReturns(c, frame) == ~c.legacy \/ "click" \in frame

DialogHandlerOps(c, frame) ==
    IF ~c.legacy
    THEN << Op("action", "Skipping legacy click dialog"), Op("pub", "") >>
    ELSE IF "click" \in frame
    THEN << Detect("click", frame),
            Op("action", "Clicking dialog button"), Op("pub", "") >>
         \o ClickDetection("click")
         \o << Op("sleep", "3") >>
    ELSE << Detect("click", frame),
            Op("action", "Waiting for click dialog..."), Op("pub", "") >>

\* scan_loop: which branch of the state machine a tick takes.
\* Mutant of Phase: the web branch does not wait for the vortex click.
Phase_IgnoresVortexFound(c, vf, wc) ==
    IF wc /\ c.vortex THEN "dialog" ELSE "web"

Phase(c, vf, wc) ==
    IF ~vf /\ c.vortex THEN "vortex"
    ELSE IF wc /\ c.vortex THEN "dialog"
    ELSE IF vf \/ ~c.vortex THEN "web"
    ELSE "none"

\* Mutant of VortexBranchOps: VORTEX_CLICKED is never set.
VortexBranchOps_NoClickedState(c, frame, win) ==
    << Op("phase", "vortex"), Op("state", WAITING_FOR_VORTEX) >>
    \o VortexHandlerOps(c, frame, win)
    \o << Op("vf", Bool(VortexReturns(c, frame, win))) >>

\* Mutant of VortexBranchOps: the branch does not set WAITING_FOR_VORTEX.
VortexBranchOps_KeepsState(c, frame, win) ==
    << Op("phase", "vortex") >>
    \o VortexHandlerOps(c, frame, win)
    \o (IF VortexReturns(c, frame, win)
        THEN << Op("vf", "true"), Op("state", VORTEX_CLICKED), Op("pub", "") >>
        ELSE << Op("vf", "false") >>)

VortexBranchOps(c, frame, win) ==
    << Op("phase", "vortex"), Op("state", WAITING_FOR_VORTEX) >>
    \o VortexHandlerOps(c, frame, win)
    \o (IF VortexReturns(c, frame, win)
        THEN << Op("vf", "true"), Op("state", VORTEX_CLICKED), Op("pub", "") >>
        ELSE << Op("vf", "false") >>)

DialogBranchOps(c, frame) ==
    << Op("phase", "dialog"), Op("state", WEB_CLICKED) >>
    \o DialogHandlerOps(c, frame)
    \o (IF DialogReturns(c, frame)
        THEN << Op("vf", "false"), Op("wc", "false"),
                Op("state", WAITING_FOR_VORTEX), Op("pub", "") >>
        ELSE << >>)

\* Mutant of WebBranchOps: a hit sets and publishes WEB_CLICKED in its own tick.
WebBranchOps_SetsWebClicked(c, st, frame) ==
    << Op("phase", "web"), Op("state", WAITING_FOR_WEB) >>
    \o WebHandlerOps(c, st, frame)
    \o << Op("wc", Bool(WebReturns(c, frame))) >>
    \o (IF WebReturns(c, frame) /\ ~c.vortex
        THEN << Op("vf", "false"), Op("wc", "false") >>
        ELSE IF WebReturns(c, frame)
        THEN << Op("state", WEB_CLICKED), Op("pub", "") >>
        ELSE << >>)

WebBranchOps(c, st, frame) ==
    << Op("phase", "web"), Op("state", WAITING_FOR_WEB) >>
    \o WebHandlerOps(c, st, frame)
    \o << Op("wc", Bool(WebReturns(c, frame))) >>
    \o (IF WebReturns(c, frame) /\ ~c.vortex
        THEN << Op("vf", "false"), Op("wc", "false") >>
        ELSE << >>)

\* The body of one iteration of the while loop, from `iteration += 1` to the
\* inter-tick sleep.
TickOps(c, st, vf, wc, frame, win) ==
    << Op("iter", ""), Op("capture", "") >>
    \o (CASE Phase(c, vf, wc) = "vortex" -> VortexBranchOps(c, frame, win)
          [] Phase(c, vf, wc) = "dialog" -> DialogBranchOps(c, frame)
          [] Phase(c, vf, wc) = "web"    -> WebBranchOps(c, st, frame)
          [] OTHER -> << >>)
    \o << Op("sleep", "click_delay") >>

\* Mutant of InterruptHandlerOps: the state is left as it was.
InterruptHandlerOps_NoIdle ==
    << Op("caught", "KeyboardInterrupt"), Op("action", "Stopped by user"),
       Op("pub", "") >>

\* except KeyboardInterrupt
InterruptHandlerOps ==
    << Op("caught", "KeyboardInterrupt"), Op("action", "Stopped by user"),
       Op("state", IDLE), Op("pub", "") >>

\* Mutant of FaultHandlerOps: the error text is not recorded.
FaultHandlerOps_NoErrorText ==
    << Op("caught", "Exception"), Op("state", ERROR), Op("pub", "") >>

\* except Exception
FaultHandlerOps ==
    << Op("caught", "Exception"), Op("error", "Scanner error"),
       Op("state", ERROR), Op("pub", "") >>


\* ----------------------------------------------------------- state machine
Bundle == [status |-> status, vortex_found |-> vortex_found,
           web_clicked |-> web_clicked, iteration |-> iteration,
           log |-> << >>, lastPub |-> lastPub, firstPub |-> firstPub,
           phase |-> "none"]

Commit(s) ==
    /\ status' = s.status
    /\ vortex_found' = s.vortex_found
    /\ web_clicked' = s.web_clicked
    /\ iteration' = s.iteration
    /\ log' = s.log
    /\ lastPub' = s.lastPub
    /\ firstPub' = s.firstPub
    /\ phase' = s.phase

AppConfig == [vortex : BOOLEAN, legacy : BOOLEAN,
              wabbajack_retry_limit : 1..MaxLimit,
              max_iterations : 0..MaxIter]

\* Scanner.__init__: status after construction.  _setup_windows publishes
\* after positioning Vortex, and records (and publishes) a window setup
\* error without raising.
InitStatus(c, setupError) ==
    [state |-> IDLE,
     current_action |-> IF c.vortex /\ ~setupError THEN "Positioned Vortex"
                        ELSE "Initialized",
     detections |-> << >>,
     clicks_count |-> 0,
     errors |-> IF setupError THEN << "Window setup error" >> ELSE << >>,
     web_retry_count |-> 0]

\* No pure-function call is under way in the scanner's own behaviours.
NoCalc == [fn |-> "none"]

Init ==
    /\ cfg \in AppConfig
    /\ \E setupError \in BOOLEAN :
          /\ status = InitStatus(cfg, setupError)
          /\ lastPub = IF cfg.vortex \/ setupError
                       THEN Snap(InitStatus(cfg, setupError)) ELSE NoPub
    /\ vortex_found = FALSE
    /\ web_clicked = FALSE
    /\ iteration = 0
    /\ pc = "init"
    /\ log = << >>
    /\ firstPub = "none"
    /\ phase = "none"
    /\ outcome = "none"
    /\ missRun = 0
    /\ calc = NoCalc

\* scan_loop is entered: the prologue before the try block.
Start ==
    /\ pc = "init"
    /\ Commit(Run(Bundle, StartOps(cfg), Len(StartOps(cfg))))
    /\ pc' = "loop"
    /\ outcome' = "ok"
    /\ UNCHANGED <<cfg, missRun, calc>>

\* A KeyboardInterrupt raised in the prologue is outside the try block and
\* leaves scan_loop as an exception.
StartInterrupted ==
    /\ pc = "init"
    /\ \E k \in 1..Len(StartOps(cfg)) :
          Commit(Apply(Run(Bundle, StartOps(cfg), k - 1),
                       Op("caught", "uncaught KeyboardInterrupt")))
    /\ pc' = "raised"
    /\ outcome' = "interrupt"
    /\ UNCHANGED <<cfg, missRun, calc>>

\* Mutant of LoopBound: the loop stops one iteration late.
LoopBound_OneLate == cfg.max_iterations # 0 /\ iteration > cfg.max_iterations

LoopBound == cfg.max_iterations # 0 /\ iteration >= cfg.max_iterations

\* `if max_iterations and iteration >= max_iterations: break`
LoopExit ==
    /\ pc = "loop"
    /\ LoopBound
    /\ pc' = "returned"
    /\ outcome' = "ok"
    /\ log' = << >>
    /\ phase' = "none"
    /\ UNCHANGED <<cfg, status, vortex_found, web_clicked, iteration,
                   lastPub, firstPub, missRun, calc>>

CanTick == pc = "loop" /\ ~LoopBound /\ iteration < MaxTicks

\* What the environment decides in a tick: the button kinds the detector
\* would find in the captured frame, and whether the Vortex window exists.
\* Only the kinds some configuration searches for in the tick's branch are
\* varied (the others are never passed to detect there), and the window only
\* in the vortex branch, the one place it is looked up.
Searchable(ph) ==
    CASE ph = "vortex" -> {"understood", "staging", "vortex"}
      [] ph = "web"    -> {"website", "wabbajack"}
      [] ph = "dialog" -> {"click"}
      [] OTHER         -> { }

Frames == SUBSET Searchable(Phase(cfg, vortex_found, web_clicked))

Windows == IF Phase(cfg, vortex_found, web_clicked) = "vortex" THEN BOOLEAN ELSE {TRUE}

WebMiss(c, vf, wc, frame) ==
    Phase(c, vf, wc) = "web" /\ ~WebReturns(c, frame)

\* One complete iteration of the loop.
Tick ==
    /\ CanTick
    /\ \E frame \in Frames, win \in Windows :
          LET ops == TickOps(cfg, status, vortex_found, web_clicked, frame, win) IN
          /\ Commit(Run(Bundle, ops, Len(ops)))
          /\ missRun' = IF WebMiss(cfg, vortex_found, web_clicked, frame)
                        THEN missRun + 1 ELSE 0
    /\ pc' = "loop"
    /\ outcome' = "ok"
    /\ UNCHANGED <<cfg, calc>>

\* An iteration in which a collaborator raises an Exception: the operations
\* before it have taken effect, then `except Exception` runs and re-raises.
TickFault ==
    /\ CanTick
    /\ \E frame \in Frames, win \in Windows :
          LET ops == TickOps(cfg, status, vortex_found, web_clicked, frame, win)
              pre == Prefixes(<< Bundle >>, ops, 1) IN
          \E k \in 1..Len(ops) :
             /\ CanFault(ops[k])
             /\ Commit(Run(pre[k], FaultHandlerOps, Len(FaultHandlerOps)))
    /\ pc' = "raised"
    /\ outcome' = "fault"
    /\ UNCHANGED <<cfg, missRun, calc>>

\* An iteration in which KeyboardInterrupt is raised before or during its
\* k-th operation (the inter-tick sleep is the last one).
TickInterrupt ==
    /\ CanTick
    /\ \E frame \in Frames, win \in Windows :
          LET ops == TickOps(cfg, status, vortex_found, web_clicked, frame, win)
              pre == Prefixes(<< Bundle >>, ops, 1) IN
          \E k \in 1..Len(ops) :
             Commit(Run(pre[k], InterruptHandlerOps, Len(InterruptHandlerOps)))
    /\ pc' = "returned"
    /\ outcome' = "interrupt"
    /\ UNCHANGED <<cfg, missRun, calc>>

Next == Start \/ StartInterrupted \/ LoopExit \/ Tick \/ TickFault \/ TickInterrupt

Spec == Init /\ [][Next]_vars

TypeOK ==
    /\ cfg \in AppConfig
    /\ status.state \in ScanState
    /\ status.clicks_count \in 0..(2 * MaxTicks)
    /\ status.web_retry_count \in 0..MaxTicks
    /\ vortex_found \in BOOLEAN
    /\ web_clicked \in BOOLEAN
    /\ iteration \in 0..MaxTicks
    /\ pc \in {"init", "loop", "returned", "raised"}
    /\ outcome \in {"none", "ok", "fault", "interrupt"}
    /\ phase \in {"none", "vortex", "web", "dialog"}
    /\ missRun \in 0..MaxTicks


\* ------------------------------------------------ observations on the log
Has(l, e, a, r) == \E i \in DOMAIN l : l[i] = Ev(e, a, r)
Hit(l, kind)    == Has(l, "detect", kind, "hit")
Missed(l, kind) == Has(l, "detect", kind, "miss")
Searched(l, kind) == Hit(l, kind) \/ Missed(l, kind)
Clicked(l, kind) == Has(l, "click", kind, "")
Count(l, e)     == Cardinality({i \in DOMAIN l : l[i].ev = e})
Pubs(l)         == SelectSeq(l, LAMBDA x : x.ev = "pub")

\* ------------------------------------------------------------------ claims

\* C1 (as claimed): with the vortex workflow on, the wabbajack_retry_limit-th
\* consecutive web-phase miss leaves web_retry_count at 0 and the
\* vortex-clicked flag cleared, so that the following tick runs the vortex
\* phase.
C1_RestartRevertsToVortex ==
    [][ (outcome' = "ok" /\ phase' = "web" /\ cfg.vortex
         /\ missRun' = cfg.wabbajack_retry_limit)
        => (status'.web_retry_count = 0 /\ ~vortex_found') ]_vars

\* C2 (as claimed): every web-phase miss adds one to the retry counter and
\* the tick in which it reaches the limit resets it, i.e. the reset falls on
\* the limit-th consecutive miss.
C2_ResetOnLimitthMiss ==
    [][ (outcome' = "ok" /\ phase' = "web" /\ missRun' > 0)
        => status'.web_retry_count =
             IF status.web_retry_count + 1 = cfg.wabbajack_retry_limit
             THEN 0 ELSE status.web_retry_count + 1 ]_vars

\* C2 (amended): a web-phase miss adds one to the retry counter while it is
\* below the limit, and a miss that finds it at the limit resets it to 0
\* instead; counted from 0, the counter equals the number of consecutive
\* misses up to the limit-th and is reset on the (limit + 1)-th.
C2_ResetOnMissAfterLimit ==
    outcome \in {"none", "ok"}
    => status.web_retry_count = missRun % (cfg.wabbajack_retry_limit + 1)

C2_Witness ==
    /\ outcome = "ok"
    /\ phase = "web"
    /\ missRun = cfg.wabbajack_retry_limit + 1
    /\ cfg.wabbajack_retry_limit = 2
    /\ status.web_retry_count = 0
    /\ status.current_action = "Restarting (button not found)"

\* C3: entering scan_loop sets the state to WAITING_FOR_VORTEX with the
\* vortex workflow and to WAITING_FOR_WEB without it, and that state has been
\* published before any frame is captured.
C3_InitialStatePublishedFirst ==
    LET initial == IF cfg.vortex THEN WAITING_FOR_VORTEX ELSE WAITING_FOR_WEB IN
    /\ (pc = "loop" /\ iteration = 0)
          => /\ status.state = initial
             /\ lastPub.state = initial
             /\ log = << Ev("pub", initial, status.current_action) >>
    /\ (iteration >= 1 \/ Has(log, "capture", "frame", ""))
          => firstPub = initial

C3_Witness ==
    /\ ~cfg.vortex
    /\ iteration = 1
    /\ log[1] = Ev("capture", "frame", "")
    /\ firstPub = WAITING_FOR_WEB

\* C4: a tick of the vortex phase that detects the vortex button clicks it
\* exactly once, sets the vortex-clicked flag and ends in state
\* VORTEX_CLICKED (published); the tick after it runs the web phase in state
\* WAITING_FOR_WEB.
VortexHitTick(o, ph, l) == o = "ok" /\ ph = "vortex" /\ Hit(l, "vortex")

C4_VortexHit ==
    [][ /\ VortexHitTick(outcome', phase', log')
           => /\ Count(log', "click") = 1
              /\ Clicked(log', "vortex")
              /\ status'.clicks_count = status.clicks_count + 1
              /\ vortex_found'
              /\ status'.state = VORTEX_CLICKED
              /\ lastPub'.state = VORTEX_CLICKED
        /\ (VortexHitTick(outcome, phase, log) /\ iteration' = iteration + 1
            /\ outcome' = "ok")
           => /\ phase' = "web"
              /\ status'.state = WAITING_FOR_WEB ]_vars

C4_Witness ==
    /\ cfg.vortex
    /\ outcome = "ok"
    /\ phase = "web"
    /\ iteration = 3
    /\ status.detections = << "understood", "vortex" >>
    /\ status.state = WAITING_FOR_WEB

\* C5 (as claimed): with the vortex workflow on, a web-phase hit ends its
\* tick in state WEB_CLICKED.
WebHitTick(o, ph, l) == o = "ok" /\ ph = "web" /\ Count(l, "click") > 0

C5_WebHitSetsWebClickedState ==
    [][ (cfg.vortex /\ WebHitTick(outcome', phase', log'))
        => (status'.state = WEB_CLICKED /\ status'.web_retry_count = 0) ]_vars

\* C5 (amended): with the vortex workflow on, a web-phase hit issues one
\* click, resets web_retry_count to 0 and sets the web-clicked flag, the
\* state staying WAITING_FOR_WEB for the rest of that tick; WEB_CLICKED is
\* set and published by the next tick, the click-dialog tick.  With the
\* vortex workflow off a hit clears both flags, so the next tick is a
\* web-phase tick again.
C5_WebHit ==
    [][ /\ (cfg.vortex /\ WebHitTick(outcome', phase', log'))
           => /\ Count(log', "click") = 1
              /\ Clicked(log', "website")
              /\ status'.web_retry_count = 0
              /\ web_clicked' /\ vortex_found'
              /\ status'.state = WAITING_FOR_WEB
        /\ (cfg.vortex /\ WebHitTick(outcome, phase, log)
            /\ iteration' = iteration + 1 /\ outcome' = "ok")
           => /\ phase' = "dialog"
              /\ Pubs(log')[1].arg = WEB_CLICKED
        /\ (~cfg.vortex /\ WebHitTick(outcome', phase', log'))
           => /\ Count(log', "click") = 1
              /\ status'.web_retry_count = 0
              /\ ~web_clicked' /\ ~vortex_found'
        /\ (~cfg.vortex /\ WebHitTick(outcome, phase, log)
            /\ iteration' = iteration + 1 /\ outcome' = "ok")
           => phase' = "web" ]_vars

C5_Witness ==
    /\ cfg.vortex
    /\ outcome = "ok"
    /\ phase = "dialog"
    /\ status.detections = << "vortex", "website" >>
    /\ status.web_retry_count = 0
    /\ missRun = 0
    /\ iteration = 4

\* C6: in the click-dialog phase, legacy mode waits in WEB_CLICKED without
\* clicking and without touching the flags while the dialog is not detected,
\* and on detection clicks it, clears both flags and returns to
\* WAITING_FOR_VORTEX; non-legacy mode skips the phase at once, with no
\* detection and no click, and returns to WAITING_FOR_VORTEX.
DialogTick(o, ph) == o = "ok" /\ ph = "dialog"

C6_ClickDialog ==
    [][ /\ (DialogTick(outcome', phase') /\ cfg.legacy /\ Missed(log', "click"))
           => /\ status'.state = WEB_CLICKED
              /\ Count(log', "click") = 0
              /\ vortex_found' /\ web_clicked'
              /\ vortex_found /\ web_clicked
        /\ (DialogTick(outcome', phase') /\ cfg.legacy /\ Hit(log', "click"))
           => /\ Count(log', "click") = 1
              /\ Clicked(log', "click")
              /\ ~vortex_found' /\ ~web_clicked'
              /\ status'.state = WAITING_FOR_VORTEX
        /\ (DialogTick(outcome', phase') /\ cfg.legacy)
           => Searched(log', "click")
        /\ (DialogTick(outcome', phase') /\ ~cfg.legacy)
           => /\ Count(log', "detect") = 0
              /\ Count(log', "click") = 0
              /\ ~vortex_found' /\ ~web_clicked'
              /\ status'.state = WAITING_FOR_VORTEX ]_vars

C6_Witness ==
    /\ cfg.legacy
    /\ outcome = "ok"
    /\ phase = "dialog"
    /\ iteration = 4
    /\ Missed(log, "click")
    /\ status.state = WEB_CLICKED
    /\ status.detections = << "vortex", "website" >>


\* C7: in legacy mode, a vortex-phase tick that detects a popup ('understood'
\* is looked for first, 'staging' only if it is absent) ends in state
\* HANDLING_POPUP having clicked exactly that popup and waited retry_delay;
\* the vortex button is not searched for in that tick and the vortex-clicked
\* flag stays false.
PopupTick(o, ph, l) ==
    o = "ok" /\ ph = "vortex" /\ (Hit(l, "understood") \/ Hit(l, "staging"))

C7_PopupFirst ==
    [][ (cfg.legacy /\ PopupTick(outcome', phase', log'))
        => /\ status'.state = HANDLING_POPUP
           /\ lastPub'.state = HANDLING_POPUP
           /\ Count(log', "click") = 1
           /\ Hit(log', "understood")
                 => (Clicked(log', "understood") /\ ~Searched(log', "staging"))
           /\ ~Hit(log', "understood")
                 => (Missed(log', "understood") /\ Clicked(log', "staging"))
           /\ Has(log', "sleep", "retry_delay", "")
           /\ ~Searched(log', "vortex")
           /\ ~vortex_found' /\ ~vortex_found ]_vars

C7_Witness ==
    /\ cfg.legacy
    /\ outcome = "ok"
    /\ iteration = 2
    /\ status.state = HANDLING_POPUP
    /\ status.detections = << "staging", "understood" >>
    /\ ~vortex_found

\* C8: a vortex-phase tick in which the Vortex window is not found clicks
\* nothing, runs no detection, appends nothing to errors, raises no
\* exception, stays in WAITING_FOR_VORTEX and leaves the loop running.
NoWindow(l) == Has(l, "window", "Vortex", "none")

C8_WindowUnavailable ==
    [][ NoWindow(log')
        => /\ phase' = "vortex"
           /\ Count(log', "click") = 0
           /\ Count(log', "detect") = 0
           /\ status'.errors = status.errors
           /\ status'.clicks_count = status.clicks_count
           /\ outcome' # "fault"
           /\ outcome' = "ok"
                 => /\ status'.state = WAITING_FOR_VORTEX
                    /\ lastPub'.state = WAITING_FOR_VORTEX
                    /\ ~vortex_found'
                    /\ pc' = "loop" ]_vars

C8_Witness ==
    /\ NoWindow(log)
    /\ outcome = "ok"
    /\ pc = "loop"
    /\ iteration = 2
    /\ status.state = WAITING_FOR_VORTEX
    /\ status.current_action = "Waiting for Vortex window..."

\* C9: an exception raised inside a tick ends the loop: its text is appended
\* to errors, the state becomes ERROR, that status is published, the
\* exception leaves scan_loop, and nothing is captured, detected or clicked
\* afterwards; whenever the state is ERROR the errors list is non-empty.
NothingAfter(l, marker) ==
    \A i, j \in DOMAIN l :
       (l[i].ev = marker /\ j > i) => l[j].ev \notin {"capture", "detect", "click", "window"}

C9_FaultAbortsLoop ==
    [][ /\ outcome' = "fault"
           => /\ status'.errors = Append(status.errors, "Scanner error")
              /\ status'.state = ERROR
              /\ lastPub' = Snap(status')
              /\ Has(log', "Exception", "", "")
              /\ NothingAfter(log', "Exception")
              /\ pc' = "raised"
        /\ status'.state = ERROR => Len(status'.errors) > 0
        /\ pc # "raised" ]_vars

C9_Witness ==
    /\ outcome = "fault"
    /\ pc = "raised"
    /\ status.state = ERROR
    /\ status.clicks_count = 1
    /\ Hit(log, "website")
    /\ Count(log, "click") = 0
    /\ status.errors = << "Window setup error", "Scanner error" >>

\* C10 (as claimed): every KeyboardInterrupt raised while scan_loop runs ends
\* it gracefully: state IDLE, a final status published, a normal return.
C10_InterruptAlwaysGraceful ==
    outcome = "interrupt"
    => (pc = "returned" /\ status.state = IDLE /\ lastPub.state = IDLE)

\* C10 (amended): a KeyboardInterrupt raised inside the loop (during a tick
\* or the inter-tick sleep, i.e. inside the try block) ends scan_loop
\* gracefully: the state becomes IDLE, that status is published, scan_loop
\* returns without raising and nothing is clicked after the interrupt.  An
\* interrupt raised in the prologue, before the loop is entered, is not
\* caught.
C10_InterruptInLoopGraceful ==
    [][ /\ (pc = "loop" /\ outcome' = "interrupt")
           => /\ pc' = "returned"
              /\ status'.state = IDLE
              /\ status'.current_action = "Stopped by user"
              /\ lastPub' = Snap(status')
              /\ status'.errors = status.errors
              /\ Has(log', "KeyboardInterrupt", "", "")
              /\ NothingAfter(log', "KeyboardInterrupt")
        /\ pc # "returned" ]_vars

C10_Witness ==
    /\ outcome = "interrupt"
    /\ pc = "returned"
    /\ status.state = IDLE
    /\ Count(log, "click") = 1
    /\ status.clicks_count = 2


\* C11 (as claimed): every completed tick calls the status callback exactly
\* once.
C11_PublishedOncePerTick ==
    [][ (iteration' = iteration + 1 /\ outcome' = "ok")
        => Count(log', "pub") = 1 ]_vars

\* C11 (amended): every completed tick calls the status callback at least
\* once: exactly once in a tick without a click (miss, window unavailable,
\* waiting for the dialog), twice in a popup-click tick, a web-hit tick and
\* a dialog-skip tick, and three times in a vortex-hit tick and a
\* dialog-click tick.
C11_PublishesPerTick ==
    [][ (iteration' = iteration + 1 /\ outcome' = "ok")
        => LET n == Count(log', "pub")
               clicks == Count(log', "click")
               skip == phase' = "dialog" /\ ~cfg.legacy IN
           /\ n \in 1..3
           /\ (clicks = 0 /\ ~skip) => n = 1
           /\ skip => (n = 2 /\ clicks = 0)
           /\ (phase' = "vortex" /\ clicks > 0 /\ ~Clicked(log', "vortex")) => n = 2
           /\ (phase' = "web" /\ clicks > 0) => n = 2
           /\ (phase' = "vortex" /\ Clicked(log', "vortex")) => n = 3
           /\ (phase' = "dialog" /\ clicks > 0) => n = 3 ]_vars

C11_Witness ==
    /\ outcome = "ok"
    /\ phase = "dialog"
    /\ cfg.legacy
    /\ Clicked(log, "click")
    /\ Count(log, "pub") = 3

\* --------------------------------------------- what the callback receives
\* _update_status passes self.status, the scanner's own mutable ScanStatus.
CallbackArgument == "self.status"

\* What a holder of the object handed to a callback call reads from it now,
\* given the values it had when it was handed over.
HeldValue(delivered) ==
    IF CallbackArgument = "self.status" THEN Snap(status) ELSE delivered

\* C12 (as claimed): what was handed to the callback is a snapshot: later
\* mutations of the scanner's status change neither the state read from the
\* first delivered value nor any field of the last delivered one.
C12_DeliveredValuesUnchanged ==
    outcome = "ok"
    => /\ firstPub # "none" => HeldValue([state |-> firstPub]).state = firstPub
       /\ lastPub # NoPub => HeldValue(lastPub) = lastPub


\* ======================================================== pure functions
\* The geometry mapper, the detector and BoundingBox are functions of their
\* arguments.  FnSpec draws the arguments of one call in its initial state
\* (calc.in) and its actions apply the function (calc.out).

\* ------------------------------------------------------------------ bounds
MaxCoord  == 2
MaxGood   == 17
MaxExtent == 8

\* The result of a call: a value, or the exception it raises.
Ok(v)    == [tag |-> "ok", val |-> v]
Raise(e) == [tag |-> e]
Pending  == [tag |-> "pending"]

Abs(n) == IF n < 0 THEN -n ELSE n
Min2(a, b) == IF a <= b THEN a ELSE b
Max2(a, b) == IF a >= b THEN a ELSE b

\* ------------------------------------------------------- screen_capture.py
\* Monitor is [x, y, width, height]; an entry of mss's monitor list and the
\* capture region are [left, top, width, height].
MonitorBounds(m) == [left |-> m.x, top |-> m.y, width |-> m.width, height |-> m.height]

\* key of the min() in _match_monitor_to_mss
MatchDistance(m, target) ==
    Abs(m.left - target.x) + Abs(m.top - target.y)
    + Abs(m.width - target.width) + Abs(m.height - target.height)

\* min(physical_monitors, key=...): the first entry of least distance.
RECURSIVE ClosestFrom(_, _, _, _)
ClosestFrom(physical, target, i, best) ==
    IF i > Len(physical) THEN best
    ELSE ClosestFrom(physical, target, i + 1,
                     IF MatchDistance(physical[i], target) < MatchDistance(physical[best], target)
                     THEN i ELSE best)

\* Mutant of MatchMonitorToMss: the first physical entry is taken unmatched.
MatchMonitorToMss_FirstEntry(screen_monitors, target) ==
    IF screen_monitors = << >> THEN << >>
    ELSE IF Len(screen_monitors) > 1 THEN << screen_monitors[2] >>
    ELSE << screen_monitors[1] >>

\* An optional value (None or a value) is a sequence of length 0 or 1.
MatchMonitorToMss(screen_monitors, target) ==
    IF screen_monitors = << >> THEN << >>
    ELSE LET physical == IF Len(screen_monitors) > 1 THEN Tail(screen_monitors)
                         ELSE screen_monitors IN
         << physical[ClosestFrom(physical, target, 2, 1)] >>

GetPrimaryMonitorBounds(monitors, screen_monitors) ==
    LET matched == MatchMonitorToMss(screen_monitors, monitors[1]) IN
    IF matched # << >> THEN matched[1] ELSE MonitorBounds(monitors[1])

\* Mutant of DetermineCaptureRegion: the first per-monitor entry is taken
\* for the virtual desktop.
DetermineCaptureRegion_FirstPhysical(monitors, screen_monitors, force_primary) ==
    IF force_primary \/ Len(screen_monitors) <= 1
    THEN GetPrimaryMonitorBounds(monitors, screen_monitors)
    ELSE screen_monitors[2]

DetermineCaptureRegion(monitors, screen_monitors, force_primary) ==
    IF force_primary \/ Len(screen_monitors) <= 1
    THEN GetPrimaryMonitorBounds(monitors, screen_monitors)
    ELSE screen_monitors[1]

\* ScreenCapture.__init__: the capture region, or the error it raises.
ScreenCaptureNew(monitors, screen_monitors, force_primary) ==
    IF monitors = << >> THEN Raise("ValueError")
    ELSE Ok(DetermineCaptureRegion(monitors, screen_monitors, force_primary))

\* Mutant of ImgToMonitor: the vertical offset is subtracted.
ImgToMonitor_WrongSign(region, x, y) == << x + region.left, y - region.top >>

ImgToMonitor(region, x, y) == << x + region.left, y + region.top >>

MonitorToImg(region, x, y) == << x - region.left, y - region.top >>

\* ------------------------------------------------------ arguments (geometry)
Coords == -MaxCoord .. MaxCoord

Monitors == [x : {-MaxCoord, 0, MaxCoord}, y : {0, 1},
             width : {MaxCoord, MaxCoord + 1}, height : {1, 2}]

MonitorLists == {<< >>} \cup {<< m >> : m \in Monitors}
                \cup {<< m1, m2 >> : m1 \in Monitors, m2 \in Monitors}

\* Entries of the capture provider's list.  They need not equal the
\* enumerated Monitor values (DPI scaling).
MssEntries == [left : {-MaxCoord, 0, MaxCoord}, top : {0},
               width : {MaxCoord, MaxCoord + 1}, height : {1}]

RECURSIVE UnionOf(_, _, _)
UnionOf(rects, i, acc) ==
    IF i > Len(rects) THEN acc
    ELSE LET r == rects[i]
             left == Min2(acc.left, r.left)
             top == Min2(acc.top, r.top)
             right == Max2(acc.left + acc.width, r.left + r.width)
             bottom == Max2(acc.top + acc.height, r.top + r.height) IN
         UnionOf(rects, i + 1, [left |-> left, top |-> top,
                                width |-> right - left, height |-> bottom - top])

\* mss.monitors: entry 1 is the virtual desktop spanning the per-monitor
\* entries that follow it.
MssList(physical) ==
    IF physical = << >> THEN << >>
    ELSE << UnionOf(physical, 2, physical[1]) >> \o physical

MssLists ==
    {<< >>} \cup {<< e >> : e \in MssEntries}
    \cup {MssList(<< e >>) : e \in MssEntries}
    \cup {MssList(<< e1, e2 >>) : e1 \in MssEntries, e2 \in MssEntries}

CoordCalls ==
    [fn : {"coords"},
     in : [left : Coords, top : Coords, x : Coords, y : Coords],
     out : {Pending}]

RegionCalls ==
    [fn : {"region"},
     in : [monitors : MonitorLists, screen_monitors : MssLists, force_primary : BOOLEAN],
     out : {Pending}]

\* -------------------------------------------------------- bounding_box.py
\* Mutant of BoundingBoxNew: an empty box (x2 = x1 or y2 = y1) is accepted.
BoundingBoxNew_AllowsEqual(x1, y1, x2, y2) ==
    IF x2 < x1 \/ y2 < y1 THEN Raise("ValidationError")
    ELSE Ok([x1 |-> x1, y1 |-> y1, x2 |-> x2, y2 |-> y2])

\* BoundingBox(x1=, y1=, x2=, y2=) with its two field validators.
BoundingBoxNew(x1, y1, x2, y2) ==
    IF x2 <= x1 \/ y2 <= y1 THEN Raise("ValidationError")
    ELSE Ok([x1 |-> x1, y1 |-> y1, x2 |-> x2, y2 |-> y2])

Width(b)  == b.x2 - b.x1
Height(b) == b.y2 - b.y1

\* int(extent * factor) for a factor num/den with den > 0: truncation
\* towards zero.
PadAmount(extent, f) ==
    IF extent * f[1] >= 0 THEN (extent * f[1]) \div f[2]
    ELSE -((-(extent * f[1])) \div f[2])

\* Mutant of Pad: only the left and top edges are moved.
Pad_LowEdgesOnly(b, f) ==
    BoundingBoxNew(b.x1 + PadAmount(Width(b), f), b.y1 + PadAmount(Height(b), f),
                   b.x2, b.y2)

Pad(b, f) ==
    BoundingBoxNew(b.x1 + PadAmount(Width(b), f), b.y1 + PadAmount(Height(b), f),
                   b.x2 - PadAmount(Width(b), f), b.y2 - PadAmount(Height(b), f))

\* ------------------------------- scanner.py: the box searched for Vortex
PadBase == 5
PadUnit == 512

\* Mutant of FacNumerator: the window's x is added instead of subtracted.
FacNumerator_Added(x1) == PadBase * PadUnit + (PadBase * PadUnit + x1)

\* fac = 5 + (5 - vortex_bbox.x1 / 512), written as FacNumerator / PadUnit.
FacNumerator(x1) == PadBase * PadUnit + (PadBase * PadUnit - x1)

\* 1 / fac as a fraction with a positive denominator (fac # 0).
PadFraction(x1) ==
    IF FacNumerator(x1) > 0 THEN << PadUnit, FacNumerator(x1) >>
    ELSE << -PadUnit, -FacNumerator(x1) >>

\* _handle_vortex_state, from the window rectangle to the padded search box:
\* the rectangle in image coordinates, the pad fraction, the padded box.
PadWindow(window, region) ==
    LET p1 == MonitorToImg(region, window.x1, window.y1)
        p2 == MonitorToImg(region, window.x2, window.y2)
        bbox == BoundingBoxNew(p1[1], p1[2], p2[1], p2[2])
        padded == Pad(bbox.val, PadFraction(window.x1)) IN
    IF bbox.tag # "ok" THEN bbox
    ELSE IF FacNumerator(window.x1) = 0 THEN Raise("ZeroDivisionError")
    ELSE IF padded.tag # "ok" THEN padded
    ELSE Ok([fraction |-> PadFraction(window.x1), bbox |-> padded.val])

\* ------------------------------------------------------ button_detector.py
\* A distance pair of knnMatch(k=2) is << nearest, second >> (or a shorter
\* sequence when the frame has fewer than two descriptors); ratio is the
\* fraction ratio[1] / ratio[2].
\* Mutant of IsGood: the ratio scales the nearest distance.
IsGood_RatioOnNearest(pair, ratio) ==
    Len(pair) = 2 /\ pair[1] * ratio[1] < ratio[2] * pair[2]

IsGood(pair, ratio) ==
    Len(pair) = 2 /\ pair[1] * ratio[2] < ratio[1] * pair[2]

GoodMatches(matches, ratio) == SelectSeq(matches, LAMBDA pair : IsGood(pair, ratio))

\* Mutant of Confidence: the quotient is not capped at 1.
Confidence_Uncapped(n, min_matches) == << n, min_matches * 2 >>

\* min(n / (min_matches * 2), 1.0) as a fraction << numerator, denominator >>.
Confidence(n, min_matches) ==
    IF n <= min_matches * 2 THEN << n, min_matches * 2 >> ELSE << 1, 1 >>

\* Mutant of MatchTemplate: a template with exactly min_matches good matches
\* is rejected.
MatchTemplate_RejectsEqual(matches, min_matches, ratio, offset) ==
    LET n == Len(GoodMatches(matches, ratio)) IN
    IF n <= min_matches THEN << >>
    ELSE << [num_matches |-> n, confidence |-> Confidence(n, min_matches),
             offset |-> offset] >>

\* _match_template: None, or the DetectionResult of one template.
MatchTemplate(matches, min_matches, ratio, offset) ==
    LET n == Len(GoodMatches(matches, ratio)) IN
    IF n < min_matches THEN << >>
    ELSE << [num_matches |-> n, confidence |-> Confidence(n, min_matches),
             offset |-> offset] >>

\* Mutant of ClipBox: the low edges are not clipped to 0.
ClipBox_LowEdgesUnclipped(bbox, frame) ==
    [x1 |-> bbox.x1, y1 |-> bbox.y1,
     x2 |-> Min2(frame.width, bbox.x2), y2 |-> Min2(frame.height, bbox.y2)]

\* detect: the bbox clipped to the frame.
ClipBox(bbox, frame) ==
    [x1 |-> Max2(0, bbox.x1), y1 |-> Max2(0, bbox.y1),
     x2 |-> Min2(frame.width, bbox.x2), y2 |-> Min2(frame.height, bbox.y2)]

\* The loop of detect over the template candidates: the first result with
\* the most matches.
RECURSIVE BestResult(_, _, _, _, _, _)
BestResult(candidates, i, best, min_matches, ratio, offset) ==
    IF i > Len(candidates) THEN best
    ELSE LET result == MatchTemplate(candidates[i], min_matches, ratio, offset) IN
         BestResult(candidates, i + 1,
                    IF result # << >>
                       /\ (best = << >> \/ result[1].num_matches > best[1].num_matches)
                    THEN result ELSE best,
                    min_matches, ratio, offset)

\* Mutant of ModeSpecificCandidates: both variants are candidates, the legacy
\* one first.
ModeSpecificCandidates_BothVariants(use_legacy_buttons, legacy, new) == legacy \o new

\* _mode_specific_candidates: the variant of the selected mode, if it is
\* loaded and has descriptors.  A template is an optional value, here what
\* knnMatch returns for it on the frame.
ModeSpecificCandidates(use_legacy_buttons, legacy, new) ==
    IF use_legacy_buttons THEN legacy ELSE new

\* _single_candidate
SingleCandidate(template) == template

\* candidate_map[button_type] in detect.  a.legacy and a.new are the
\* templates of the kind (a.new only for "vortex" and "website").
TemplateCandidates(a) ==
    IF a.kind \in {"vortex", "website"}
    THEN ModeSpecificCandidates(a.use_legacy_buttons, a.legacy, a.new)
    ELSE SingleCandidate(a.legacy)

\* detect(img, button_type, min_matches, ratio, bbox).  a.candidates holds,
\* per template candidate of the button type, what knnMatch returns for it
\* against the searched region; a.bbox is optional.  The value is the
\* optional DetectionResult and the number of templates matched.
DetectFn(a) ==
    LET clip == ClipBox(a.bbox[1], a.frame)
        offset == IF a.bbox = << >> THEN << 0, 0 >> ELSE << clip.x1, clip.y1 >> IN
    IF a.candidates = << >> THEN Ok([result |-> << >>, matched |-> 0])
    ELSE IF a.bbox # << >> /\ (clip.x2 <= clip.x1 \/ clip.y2 <= clip.y1)
    THEN Ok([result |-> << >>, matched |-> 0])
    ELSE IF ~a.has_keypoints THEN Ok([result |-> << >>, matched |-> 0])
    ELSE Ok([result |-> BestResult(a.candidates, 1, << >>, a.min_matches, a.ratio, offset),
             matched |-> Len(a.candidates)])

\* detect for a button kind on a full frame with keypoints.
DetectKind(a) ==
    DetectFn([candidates |-> TemplateCandidates(a), min_matches |-> a.min_matches,
              ratio |-> a.ratio, bbox |-> << >>, frame |-> a.frame,
              has_keypoints |-> TRUE])

\* ------------------------------------------------- arguments of the calls
BoxCalls ==
    [fn : {"box"}, in : [x1 : Coords, y1 : Coords, x2 : Coords, y2 : Coords],
     out : {Pending}]

\* Fractions in [0, 1] whose products with an integer are exact in floats.
Fractions == {<< 0, 1 >>, << 1, 8 >>, << 1, 4 >>, << 3, 8 >>, << 1, 2 >>,
              << 3, 4 >>, << 1, 1 >>}

\* Valid boxes: values BoundingBoxNew accepts.
Boxes ==
    {[x1 |-> x, y1 |-> y, x2 |-> x + w, y2 |-> y + h] :
        x \in {-MaxCoord, 0}, y \in {0, 1}, w \in 1 .. MaxExtent, h \in 1 .. MaxExtent}

PadCalls == [fn : {"pad"}, in : [box : Boxes, factor : Fractions], out : {Pending}]

\* What knnMatch returns for one template: good pairs (distance 1 against 4
\* passes every ratio below), then pairs that pass only some ratios or none,
\* then possibly a single-neighbour entry.
RECURSIVE Repeat(_, _)
Repeat(x, n) == IF n = 0 THEN << >> ELSE << x >> \o Repeat(x, n - 1)

MatchLists ==
    {Repeat(<< 1, 4 >>, g) \o far \o lone :
        g \in 0 .. MaxGood,
        far \in {<< >>, << << 3, 4 >> >>, << << 4, 4 >>, << 2, 4 >> >>},
        lone \in {<< >>, << << 1 >> >>}}

Ratios == {<< 1, 2 >>, << 3, 4 >>, << 1, 1 >>}
MinMatches == {1, 6, 8}

\* The frame every detect call searches.
Frame == [width |-> MaxCoord + 1, height |-> MaxCoord]

\* A box given to detect: any valid BoundingBox around or beside the frame.
SearchBoxes ==
    {b \in [x1 : -MaxCoord .. MaxCoord + 2, y1 : -1 .. MaxCoord + 1,
            x2 : -MaxCoord .. MaxCoord + 2, y2 : -1 .. MaxCoord + 1] :
        b.x2 > b.x1 /\ b.y2 > b.y1}

\* A button kind has at most one template candidate; a frame region without
\* keypoints has no descriptors to match.
DetectCalls ==
    [fn : {"detect"},
     in : [candidates : {<< m >> : m \in MatchLists}, min_matches : MinMatches,
           ratio : Ratios, bbox : {<< >>}, frame : {Frame}, has_keypoints : {TRUE}]
          \cup [candidates : {<< >>, << << >> >>}, min_matches : MinMatches,
                ratio : {<< 3, 4 >>}, bbox : {<< >>}, frame : {Frame},
                has_keypoints : {FALSE}]
          \cup [candidates : {<< >>, << Repeat(<< 1, 4 >>, 8) >>, << Repeat(<< 1, 4 >>, 7) >>},
                min_matches : {8}, ratio : {<< 3, 4 >>},
                bbox : {<< b >> : b \in SearchBoxes}, frame : {Frame},
                has_keypoints : {TRUE}],
     out : {Pending}]

\* Rectangles the window lookup can return (x2 > x1, y2 > y1), on and off
\* the captured monitor; the capture region starts at the origin or left of it.
WindowXs == {-3072, -1920, 0, 1024, 1920, 3072, 4096, 4608, 5120, 6144}

WindowRects ==
    {[x1 |-> x, y1 |-> 0, x2 |-> x + w, y2 |-> h] :
        x \in WindowXs, w \in {1, 2, 800, 1920}, h \in {600, 1080}}

WindowCalls ==
    [fn : {"window"},
     in : [window : WindowRects,
           region : {[left |-> l, top |-> 0, width |-> 1920, height |-> 1080] :
                        l \in {-1920, 0}}],
     out : {Pending}]

\* What a template variant yields on the frame: a number of good pairs.
VariantMatches == {Repeat(<< 1, 4 >>, g) : g \in {0, 7, 8, 9, 12}}

\* The legacy templates are required assets; the new ones are optional and
\* exist for "vortex" and "website" only.
KindCalls ==
    [fn : {"kind"},
     in : [kind : {"vortex", "website"}, use_legacy_buttons : BOOLEAN,
           legacy : {<< v >> : v \in VariantMatches},
           new : {<< >>} \cup {<< v >> : v \in VariantMatches},
           min_matches : {8}, ratio : {<< 3, 4 >>}, frame : {Frame}]
          \cup [kind : {"wabbajack", "click", "understood", "staging"},
                use_legacy_buttons : BOOLEAN,
                legacy : {<< v >> : v \in VariantMatches}, new : {<< >>},
                min_matches : {6}, ratio : {<< 3, 4 >>}, frame : {Frame}],
     out : {Pending}]

\* _match_template, lines 187-201: the mean of the good matches' keypoints
\* (positions in the searched crop), moved by the crop offset, truncated.
RECURSIVE SumOf(_, _)
SumOf(points, axis) ==
    IF points = << >> THEN 0 ELSE Head(points)[axis] + SumOf(Tail(points), axis)

DetectionPoint(points, offset) ==
    << SumOf(points, 1) \div Len(points) + offset[1],
       SumOf(points, 2) \div Len(points) + offset[2] >>

\* The keypoint at a corner of the crop: corner[axis] is 0 for the first
\* pixel and 1 for the last.
PointAt(corner, clip) ==
    << corner[1] * (Width(clip) - 1), corner[2] * (Height(clip) - 1) >>

\* The vortex search of _handle_vortex_state and the click of
\* _click_detection: the window rectangle is padded, detect searches the
\* padded box clipped to the frame, and a detection is clicked at its point
\* mapped to screen coordinates.  a.corners places the good matches in the
\* crop.  The value is the optional click position.
VortexClick(a) ==
    LET frame == [width |-> a.region.width, height |-> a.region.height]
        box == PadWindow(a.window, a.region)
        clip == ClipBox(box.val.bbox, frame)
        found == DetectFn([candidates |-> << Repeat(<< 1, 4 >>, Len(a.corners)) >>,
                           min_matches |-> a.min_matches, ratio |-> << 3, 4 >>,
                           bbox |-> << box.val.bbox >>, frame |-> frame,
                           has_keypoints |-> TRUE]).val.result
        point == DetectionPoint([k \in DOMAIN a.corners |-> PointAt(a.corners[k], clip)],
                                found[1].offset) IN
    IF box.tag # "ok" THEN box
    ELSE IF found = << >> THEN Ok(<< >>)
    ELSE Ok(<< ImgToMonitor(a.region, point[1], point[2]) >>)

\* Vortex windows on a desktop of monitors side by side, and good matches at
\* corners of the searched crop.
Corners == {<< 0, 0 >>, << 1, 0 >>, << 0, 1 >>, << 1, 1 >>}

ClickCalls ==
    [fn : {"vortex_click"},
     in : [window : {[x1 |-> x, y1 |-> 120, x2 |-> x + 800, y2 |-> 720] :
                        x \in {-1920, 0, 1920, 3072, 5120, 5632, 6144}},
           region : {[left |-> l, top |-> 0, width |-> 7680, height |-> 1080] :
                        l \in {-1920, 0}},
           corners : {<< c >> : c \in Corners}
                     \cup {<< c, d >> : c \in Corners, d \in {<< 0, 0 >>, << 1, 1 >>}},
           min_matches : {1, 2}],
     out : {Pending}]

Calls ==
    CoordCalls \cup RegionCalls \cup BoxCalls \cup PadCalls \cup DetectCalls
    \cup WindowCalls \cup KindCalls \cup ClickCalls

\* ------------------------------------------- the functions, one call each
\* The scanner is not running while a function is exercised.
FnInit ==
    /\ cfg = [vortex |-> FALSE, legacy |-> FALSE, wabbajack_retry_limit |-> 1,
              max_iterations |-> 0]
    /\ status = InitStatus(cfg, FALSE)
    /\ vortex_found = FALSE /\ web_clicked = FALSE /\ iteration = 0
    /\ pc = "init" /\ log = << >> /\ lastPub = NoPub /\ firstPub = "none"
    /\ phase = "none" /\ outcome = "none" /\ missRun = 0
    /\ calc \in Calls

Scanner == << cfg, status, vortex_found, web_clicked, iteration, pc, log, lastPub,
              firstPub, phase, outcome, missRun >>

Returns(fn, out) ==
    /\ calc.fn = fn /\ calc.out = Pending
    /\ calc' = [calc EXCEPT !.out = out]
    /\ UNCHANGED Scanner

CoordsCall ==
    LET a == calc.in
        region == [left |-> a.left, top |-> a.top, width |-> 1, height |-> 1]
        mon == ImgToMonitor(region, a.x, a.y)
        img == MonitorToImg(region, a.x, a.y) IN
    Returns("coords",
            Ok([to_monitor |-> mon, to_img |-> img,
                img_of_monitor |-> MonitorToImg(region, mon[1], mon[2]),
                monitor_of_img |-> ImgToMonitor(region, img[1], img[2])]))

RegionCall ==
    Returns("region",
            ScreenCaptureNew(calc.in.monitors, calc.in.screen_monitors,
                             calc.in.force_primary))

BoxCall ==
    Returns("box", BoundingBoxNew(calc.in.x1, calc.in.y1, calc.in.x2, calc.in.y2))

PadCall == Returns("pad", Pad(calc.in.box, calc.in.factor))

DetectCall == Returns("detect", DetectFn(calc.in))

WindowCall == Returns("window", PadWindow(calc.in.window, calc.in.region))

KindCall == Returns("kind", DetectKind(calc.in))

VortexClickCall == Returns("vortex_click", VortexClick(calc.in))

FnNext ==
    \/ CoordsCall \/ RegionCall \/ BoxCall \/ PadCall \/ DetectCall
    \/ WindowCall \/ KindCall \/ VortexClickCall

FnSpec == FnInit /\ [][FnNext]_vars

\* ------------------------------------------------- claims on the functions
Done(fn) == calc.fn = fn /\ calc.out # Pending

\* C13: converting an image point to monitor coordinates and back, or a
\* monitor point to image coordinates and back, returns the point, also when
\* the capture region's left or top is negative; image-to-monitor adds
\* (left, top).
C13_CoordinateRoundTrip ==
    Done("coords")
    => LET a == calc.in  r == calc.out.val IN
       /\ r.to_monitor = << a.x + a.left, a.y + a.top >>
       /\ r.img_of_monitor = << a.x, a.y >>
       /\ r.monitor_of_img = << a.x, a.y >>

C13_Witness ==
    /\ Done("coords")
    /\ calc.in.left < 0 /\ calc.in.top < 0 /\ calc.in.x > 0 /\ calc.in.y > 0
    /\ calc.out.val.img_of_monitor = << calc.in.x, calc.in.y >>
    /\ calc.out.val.to_monitor # << calc.in.x, calc.in.y >>

RegionDone(force) ==
    /\ Done("region") /\ calc.out.tag = "ok"
    /\ calc.in.force_primary = force

\* The capture provider's per-monitor entries.
PhysicalEntries ==
    IF Len(calc.in.screen_monitors) > 1 THEN Tail(calc.in.screen_monitors)
    ELSE calc.in.screen_monitors

PrimaryBounds == MonitorBounds(calc.in.monitors[1])

\* The capture provider lists the virtual desktop and one entry per display.
ProviderListsDisplays ==
    Len(calc.in.screen_monitors) = Len(calc.in.monitors) + 1

\* C14 as stated: with force_primary the capture region is the primary
\* Monitor's own bounds, whatever entries the capture provider lists.
C14_RegionIsPrimaryMonitorBounds ==
    (RegionDone(TRUE) /\ ProviderListsDisplays) => calc.out.val = PrimaryBounds

\* C14 amended: with force_primary the capture region is the capture
\* provider's per-monitor entry closest to the primary Monitor (sum of the
\* absolute differences of left, top, width and height; the first of equally
\* close entries); it is the primary Monitor's own bounds when an entry has
\* exactly these bounds or the provider lists nothing.  Other enumerated
\* monitors play no part.
C14_RegionIsClosestProviderEntry ==
    RegionDone(TRUE)
    => LET phys == PhysicalEntries
           d(i) == MatchDistance(phys[i], calc.in.monitors[1]) IN
       /\ phys = << >> => calc.out.val = PrimaryBounds
       /\ phys # << >>
          => \E i \in DOMAIN phys :
                /\ calc.out.val = phys[i]
                /\ \A j \in DOMAIN phys : d(i) <= d(j)
                /\ \A j \in 1 .. i - 1 : d(j) > d(i)
       /\ (\E i \in DOMAIN phys : phys[i] = PrimaryBounds)
          => calc.out.val = PrimaryBounds

C14_Witness ==
    /\ RegionDone(TRUE)
    /\ Len(calc.in.monitors) = 2 /\ Len(calc.in.screen_monitors) = 3
    /\ calc.out.val = calc.in.screen_monitors[3]
    /\ calc.out.val # PrimaryBounds
    /\ calc.out.val # calc.in.screen_monitors[2]

\* Union bounding box of the enumerated Monitor values.
MonitorUnion ==
    LET ms == calc.in.monitors
        left == CHOOSE v \in {ms[i].x : i \in DOMAIN ms} :
                    \A i \in DOMAIN ms : v <= ms[i].x
        top == CHOOSE v \in {ms[i].y : i \in DOMAIN ms} :
                    \A i \in DOMAIN ms : v <= ms[i].y
        right == CHOOSE v \in {ms[i].x + ms[i].width : i \in DOMAIN ms} :
                    \A i \in DOMAIN ms : v >= ms[i].x + ms[i].width
        bottom == CHOOSE v \in {ms[i].y + ms[i].height : i \in DOMAIN ms} :
                    \A i \in DOMAIN ms : v >= ms[i].y + ms[i].height IN
    [left |-> left, top |-> top, width |-> right - left, height |-> bottom - top]

\* The provider's per-monitor entries are the enumerated Monitor values.
ProviderAgrees ==
    /\ ProviderListsDisplays
    /\ \A i \in DOMAIN calc.in.monitors :
          calc.in.screen_monitors[i + 1] = MonitorBounds(calc.in.monitors[i])

\* C15 as stated: without force_primary and with more than one display the
\* capture region is the union bounding box of the enumerated Monitor values.
C15_RegionIsUnionOfMonitors ==
    (RegionDone(FALSE) /\ Len(calc.in.monitors) > 1 /\ ProviderListsDisplays)
    => calc.out.val = MonitorUnion

\* C15 amended: without force_primary and with a capture provider that lists
\* more than one entry, the capture region is the provider's first entry,
\* its virtual desktop (the union bounding box of the provider's per-monitor
\* entries); it is the union bounding box of the enumerated Monitor values
\* when the provider's per-monitor entries equal them.  With at most one
\* provider entry the region is that of force_primary.
C15_RegionIsProviderVirtualDesktop ==
    RegionDone(FALSE)
    => /\ Len(calc.in.screen_monitors) > 1
          => /\ calc.out.val = calc.in.screen_monitors[1]
             /\ ProviderAgrees => calc.out.val = MonitorUnion
       /\ Len(calc.in.screen_monitors) = 1
          => calc.out.val = calc.in.screen_monitors[1]
       /\ calc.in.screen_monitors = << >> => calc.out.val = PrimaryBounds

C15_Witness ==
    /\ RegionDone(FALSE) /\ ProviderAgrees
    /\ Len(calc.in.monitors) = 2
    /\ calc.in.monitors[1].x = -MaxCoord /\ calc.in.monitors[2].x = 0
    /\ calc.in.monitors[1].width = MaxCoord
    /\ calc.out.val = [left |-> -MaxCoord, top |-> 0, width |-> 2 * MaxCoord,
                       height |-> 1]

\* Number of pairs of template candidate i that pass the ratio test.
GoodCount(i) ==
    LET pairs == calc.in.candidates[i]  ratio == calc.in.ratio IN
    Cardinality({k \in DOMAIN pairs :
                    /\ Len(pairs[k]) = 2
                    /\ pairs[k][1] * ratio[2] < ratio[1] * pairs[k][2]})

\* C16: detect(frame, kind, min_matches, ratio) returns none when every
\* candidate template has fewer good matches than min_matches, and otherwise
\* a result with num_matches >= min_matches (the good matches of the best
\* candidate); with min_matches = 8, 8 good matches give a result and 7 none.
C16_ThresholdOnGoodMatches ==
    (Done("detect") /\ calc.in.bbox = << >>)
    => LET a == calc.in  r == calc.out.val.result IN
       /\ calc.out.tag = "ok"
       /\ (\A i \in DOMAIN a.candidates : GoodCount(i) < a.min_matches)
          => r = << >>
       /\ (\E i \in DOMAIN a.candidates : GoodCount(i) >= a.min_matches)
          => /\ r # << >>
             /\ r[1].num_matches >= a.min_matches
             /\ \E i \in DOMAIN a.candidates : r[1].num_matches = GoodCount(i)
       /\ (a.min_matches = 8 /\ a.candidates # << >> /\ GoodCount(1) = 7)
          => r = << >>
       /\ (a.min_matches = 8 /\ a.candidates # << >> /\ GoodCount(1) = 8)
          => (r # << >> /\ r[1].num_matches = 8)

C16_Witness ==
    /\ Done("detect") /\ calc.in.bbox = << >>
    /\ calc.in.min_matches = 8 /\ GoodCount(1) = 8
    /\ Len(calc.in.candidates[1]) > 8
    /\ calc.out.val.result # << >>
    /\ calc.out.val.result[1].num_matches = 8

\* C17: the confidence of a detection is min(num_matches / (2 * min_matches),
\* 1): at least 0, at most 1, exactly 1 from num_matches = 2 * min_matches
\* on, num_matches / (2 * min_matches) below that, never smaller for more
\* matches, and 1/2 for num_matches = min_matches = 8.
C17_ConfidenceSaturates ==
    (Done("detect") /\ calc.out.val.result # << >>)
    => LET n == calc.out.val.result[1].num_matches
           m == calc.in.min_matches
           c == calc.out.val.result[1].confidence IN
       /\ c[2] > 0 /\ 0 <= c[1] /\ c[1] <= c[2]
       /\ n >= 2 * m => c[1] = c[2]
       /\ n <= 2 * m => c[1] * (2 * m) = n * c[2]
       /\ (n = 8 /\ m = 8) => 2 * c[1] = c[2]
       /\ \A k \in 0 .. n - 1 :
             LET lo == Confidence(k, m)  hi == Confidence(k + 1, m) IN
             lo[1] * hi[2] <= hi[1] * lo[2]

C17_Witness ==
    /\ Done("detect") /\ calc.out.val.result # << >>
    /\ calc.in.min_matches = 8
    /\ calc.out.val.result[1].num_matches > 16
    /\ calc.out.val.result[1].confidence = << 1, 1 >>

\* C18: a bbox given to detect is clipped to the frame; when the clipped box
\* is degenerate (x2 <= x1 or y2 <= y1) detect returns none without raising
\* and without matching any template, for boxes wholly outside the frame and
\* for boxes with negative coordinates; otherwise the clipped box is searched.
C18_DegenerateClipReturnsNone ==
    (Done("detect") /\ calc.in.bbox # << >>)
    => LET a == calc.in  b == a.bbox[1]
           x1 == IF b.x1 < 0 THEN 0 ELSE b.x1
           y1 == IF b.y1 < 0 THEN 0 ELSE b.y1
           x2 == IF b.x2 > a.frame.width THEN a.frame.width ELSE b.x2
           y2 == IF b.y2 > a.frame.height THEN a.frame.height ELSE b.y2 IN
       /\ calc.out.tag = "ok"
       /\ (x2 <= x1 \/ y2 <= y1)
          => (calc.out.val.result = << >> /\ calc.out.val.matched = 0)
       /\ (x2 > x1 /\ y2 > y1)
          => /\ calc.out.val.matched = Len(a.candidates)
             /\ calc.out.val.result # << >>
                => calc.out.val.result[1].offset = << x1, y1 >>

C18_Witness ==
    /\ Done("detect") /\ calc.in.bbox # << >>
    /\ calc.in.bbox[1].x1 < 0 /\ calc.in.bbox[1].x2 <= 0
    /\ calc.in.candidates # << >> /\ GoodCount(1) = 8
    /\ calc.out.tag = "ok" /\ calc.out.val.result = << >>
    /\ calc.out.val.matched = 0

\* C19: constructing a BoundingBox fails whenever x2 <= x1 or y2 <= y1 and
\* succeeds whenever x2 > x1 and y2 > y1, so every BoundingBox has positive
\* width and height.
C19_BoundingBoxValidated ==
    Done("box")
    => LET a == calc.in IN
       /\ (a.x2 <= a.x1 \/ a.y2 <= a.y1) => calc.out.tag = "ValidationError"
       /\ (a.x2 > a.x1 /\ a.y2 > a.y1) => calc.out = Ok(a)
       /\ calc.out.tag = "ok"
          => (calc.out.val.x2 - calc.out.val.x1 > 0
              /\ calc.out.val.y2 - calc.out.val.y1 > 0)

C19_Witness ==
    /\ Done("box")
    /\ calc.in.x2 = calc.in.x1 /\ calc.in.y2 > calc.in.y1
    /\ calc.out.tag = "ValidationError"

\* The box pad is claimed to return: every edge moved inward by the
\* truncated product of the factor and the extent.
PaddedBox ==
    LET b == calc.in.box  f == calc.in.factor
        w_pad == ((b.x2 - b.x1) * f[1]) \div f[2]
        h_pad == ((b.y2 - b.y1) * f[1]) \div f[2] IN
    [x1 |-> b.x1 + w_pad, y1 |-> b.y1 + h_pad,
     x2 |-> b.x2 - w_pad, y2 |-> b.y2 - h_pad]

C21_FractionGrowsToTheLeft ==
    (Done("window") /\ calc.out.tag = "ok")
    => LET x == calc.in.window.x1  f == calc.out.val.fraction IN
       /\ f[1] * (5120 - x) = 512 * f[2]
       /\ \A x0 \in WindowXs :
             (x0 < x /\ x < 5120)
             => LET f0 == PadFraction(x0) IN f0[1] * f[2] > f[1] * f0[2]

\* C21 amended: the pad fraction of the Vortex window box is
\* 1 / (5 + (5 - windowX / 512)) = 512 / (5120 - windowX); left of
\* windowX = 5120 it is positive and a smaller windowX gives a smaller
\* fraction (the margin widens as the window moves right); at windowX = 5120
\* the division fails, and right of it the fraction is negative.
C21_FractionGrowsToTheRight ==
    Done("window")
    => LET x == calc.in.window.x1 IN
       /\ x = 5120 => calc.out.tag = "ZeroDivisionError"
       /\ calc.out.tag = "ok"
          => LET f == calc.out.val.fraction IN
             /\ f[2] > 0 /\ f[1] * (5120 - x) = 512 * f[2]
             /\ x < 5120 => f[1] > 0
             /\ x > 5120 => f[1] < 0
             /\ \A x0 \in WindowXs :
                   (x0 < x /\ x < 5120)
                   => LET f0 == PadFraction(x0) IN f0[1] * f[2] < f[1] * f0[2]

C21_Witness ==
    /\ Done("window") /\ calc.out.tag = "ok"
    /\ calc.in.window.x1 = 3072 /\ calc.in.window.x2 = 3072 + 1920
    /\ calc.in.region.left = 0
    /\ calc.out.val.fraction[1] * 4 = calc.out.val.fraction[2]
    /\ calc.out.val.bbox.x1 = 3072 + 480 /\ calc.out.val.bbox.x2 = 3072 + 1920 - 480

\* Positions of the pairs of the first template candidate that are good
\* matches at ratio r.
GoodAt(r) == {k \in DOMAIN calc.in.candidates[1] : IsGood(calc.in.candidates[1][k], r)}

\* C22: for a fixed list of (nearest, second-nearest) distance pairs, the
\* good matches at a smaller ratio are among the good matches at a larger
\* ratio, so raising ratio_threshold never lowers the good-match count.
C22_LooserRatioKeepsGoodMatches ==
    (Done("detect") /\ calc.in.candidates # << >>)
    => \A r1 \in Ratios, r2 \in Ratios :
          r1[1] * r2[2] <= r2[1] * r1[2]
          => /\ GoodAt(r1) \subseteq GoodAt(r2)
             /\ Len(GoodMatches(calc.in.candidates[1], r1))
                <= Len(GoodMatches(calc.in.candidates[1], r2))
             /\ Len(GoodMatches(calc.in.candidates[1], r1)) = Cardinality(GoodAt(r1))

C22_Witness ==
    /\ Done("detect") /\ calc.in.candidates # << >> /\ calc.in.bbox = << >>
    /\ calc.in.ratio = << 1, 2 >> /\ calc.in.min_matches = 6
    /\ Cardinality(GoodAt(<< 1, 2 >>)) = 6
    /\ Cardinality(GoodAt(<< 3, 4 >>)) = 7
    /\ Cardinality(GoodAt(<< 1, 1 >>)) = 7
    /\ calc.out.val.result # << >>
    /\ calc.out.val.result[1].num_matches = 6

\* Good-match counts of the loaded template variants of the kind, in
\* registration order (legacy first, then new); every pair of VariantMatches
\* passes the ratio test.
VariantCounts ==
    [i \in 1 .. Len(calc.in.legacy \o calc.in.new) |->
        Len((calc.in.legacy \o calc.in.new)[i])]

\* C23 as stated: among the loaded variants of a kind that reach
\* min_matches, detect returns the result of the one with the most good
\* matches, and none only when no variant reaches min_matches.
C23_BestOfAllVariants ==
    Done("kind")
    => LET n == VariantCounts  r == calc.out.val.result IN
       IF \E i \in DOMAIN n : n[i] >= calc.in.min_matches
       THEN /\ r # << >>
            /\ \A i \in DOMAIN n : r[1].num_matches >= n[i]
            /\ \E i \in DOMAIN n : r[1].num_matches = n[i]
       ELSE r = << >>

\* C23 amended: detect matches only the variant of the active template mode
\* (the legacy template with use_legacy_buttons, the new template without)
\* for "vortex" and "website", and the single template of every other kind;
\* it returns that candidate's result when it reaches min_matches and none
\* otherwise, also when the variant of the other mode would reach
\* min_matches.  At most one template is matched per call.
C23_OnlyActiveVariant ==
    Done("kind")
    => LET a == calc.in  r == calc.out.val.result
           active == IF a.kind \in {"vortex", "website"} /\ ~a.use_legacy_buttons
                     THEN a.new ELSE a.legacy IN
       /\ calc.out.val.matched = Len(active)
       /\ calc.out.val.matched <= 1
       /\ (active = << >> \/ Len(active[1]) < a.min_matches) <=> r = << >>
       /\ r # << >> => r[1].num_matches = Len(active[1])

C23_Witness ==
    /\ Done("kind") /\ calc.in.kind = "vortex" /\ ~calc.in.use_legacy_buttons
    /\ Len(calc.in.legacy[1]) = 12
    /\ calc.in.new # << >> /\ Len(calc.in.new[1]) = 9
    /\ calc.out.val.result # << >>
    /\ calc.out.val.result[1].num_matches = 9

\* ------------------------------------------------------------ construction
\* _load_assets: the files it requires and the files it can do without.
RequiredAssets == {"vortex", "web", "wabbajack", "click", "understood", "staging"}
OptionalAssets == {"vortex_new", "web_new"}

\* Mutant of LoadAssets: a missing 'staging' file is tolerated.
LoadAssets_StagingOptional(present) ==
    IF \E k \in RequiredAssets \ {"staging"} : k \notin present
    THEN Raise("FileNotFoundError")
    ELSE Ok(present \cap (RequiredAssets \cup OptionalAssets))

\* _load_assets: present is the set of asset files that exist.
LoadAssets(present) ==
    IF \E k \in RequiredAssets : k \notin present THEN Raise("FileNotFoundError")
    ELSE Ok(present \cap (RequiredAssets \cup OptionalAssets))

\* The asset a kind with two variants uses in the selected mode.
TargetAsset(kind, use_legacy_buttons) ==
    CASE kind = "vortex"  -> IF use_legacy_buttons THEN "vortex" ELSE "vortex_new"
      [] kind = "website" -> IF use_legacy_buttons THEN "web" ELSE "web_new"

\* _log_asset_mode: one warning for each of Vortex and Website whose
\* template of the selected mode is missing.
LogAssetMode(loaded, use_legacy_buttons) ==
    SelectSeq(<< "vortex", "website" >>,
              LAMBDA kind : TargetAsset(kind, use_legacy_buttons) \notin loaded)

\* The kinds for which detect has an empty candidate list.
NoCandidates(loaded, use_legacy_buttons) ==
    {kind \in {"vortex", "website"} :
        TargetAsset(kind, use_legacy_buttons) \notin loaded}

\* ButtonDetector.__init__
ButtonDetectorNew(present, use_legacy_buttons) ==
    LET loaded == LoadAssets(present) IN
    IF loaded.tag # "ok" THEN loaded
    ELSE Ok([assets |-> loaded.val,
             warnings |-> LogAssetMode(loaded.val, use_legacy_buttons)])

\* Mutant of ScannerNew: the detector is constructed before the capture.
ScannerNew_DetectorFirst(c, e) ==
    LET capture == ScreenCaptureNew(e.monitors, e.screen_monitors, e.force_primary)
        detector == ButtonDetectorNew(e.assets, c.legacy) IN
    IF detector.tag # "ok" THEN detector
    ELSE IF capture.tag # "ok" THEN capture
    ELSE IF ~e.is_windows THEN Raise("RuntimeError")
    ELSE Ok([capture_region |-> capture.val, assets |-> detector.val.assets,
             warnings |-> detector.val.warnings])

\* Scanner.__init__ up to the components: ScreenCapture, ButtonDetector,
\* WindowManager, in this order; the first that raises ends the construction.
ScannerNew(c, e) ==
    LET capture == ScreenCaptureNew(e.monitors, e.screen_monitors, e.force_primary)
        detector == ButtonDetectorNew(e.assets, c.legacy) IN
    IF capture.tag # "ok" THEN capture
    ELSE IF detector.tag # "ok" THEN detector
    ELSE IF ~e.is_windows THEN Raise("RuntimeError")
    ELSE Ok([capture_region |-> capture.val, assets |-> detector.val.assets,
             warnings |-> detector.val.warnings])

\* ------------------------------------------- a session in its environment
\* The environment of a session: the monitors, the asset files, the host and
\* where the Vortex window is (it stays there).
PrimaryMonitor   == [x |-> 0, y |-> 0, width |-> 1920, height |-> 1080]
SecondaryMonitor == [x |-> 1920, y |-> 0, width |-> 1920, height |-> 1080]

AssetSets ==
    {RequiredAssets \cup opt : opt \in SUBSET OptionalAssets}
    \cup {(RequiredAssets \cup OptionalAssets) \ {k} : k \in RequiredAssets}

SessionWindows ==
    {<< >>} \cup {<< [x1 |-> x, y1 |-> 0, x2 |-> x + 1920, y2 |-> 1080] >> :
                    x \in {-1920, 0, 1920, 4096, 5120}}

Environments ==
    [monitors : {<< PrimaryMonitor, SecondaryMonitor >>},
     screen_monitors : {MssList(<< MonitorBounds(PrimaryMonitor),
                                   MonitorBounds(SecondaryMonitor) >>)},
     force_primary : {TRUE}, is_windows : {TRUE},
     assets : AssetSets, window : SessionWindows]
    \cup [monitors : {<< >>, << PrimaryMonitor, SecondaryMonitor >>},
          screen_monitors : {MssList(<< MonitorBounds(PrimaryMonitor),
                                        MonitorBounds(SecondaryMonitor) >>)},
          force_primary : {TRUE}, is_windows : BOOLEAN,
          assets : {RequiredAssets \cup OptionalAssets, OptionalAssets},
          window : {<< >>}]

SessionInit ==
    /\ cfg \in [vortex : BOOLEAN, legacy : BOOLEAN, wabbajack_retry_limit : {1},
                max_iterations : {MaxIter}]
    /\ calc \in [fn : {"scanner"}, in : Environments, out : {Pending}]
    /\ status = InitStatus(cfg, FALSE)
    /\ lastPub = NoPub
    /\ vortex_found = FALSE /\ web_clicked = FALSE /\ iteration = 0
    /\ pc = "new" /\ log = << >> /\ firstPub = "none"
    /\ phase = "none" /\ outcome = "none" /\ missRun = 0

\* Scanner(config, monitors, callback): on success the scanner exists with
\* its initial status (published once by _setup_windows with the vortex
\* workflow); the log holds the warnings of _log_asset_mode.
Construct ==
    /\ pc = "new" /\ calc.fn = "scanner" /\ calc.out = Pending
    /\ LET out == ScannerNew(cfg, calc.in) IN
       /\ calc' = [calc EXCEPT !.out = out]
       /\ pc' = IF out.tag = "ok" THEN "init" ELSE "failed"
       /\ lastPub' = IF out.tag = "ok" /\ cfg.vortex
                     THEN Snap(InitStatus(cfg, FALSE)) ELSE NoPub
       /\ log' = IF out.tag = "ok"
                 THEN [k \in 1 .. Len(out.val.warnings) |->
                          Ev("warning", out.val.warnings[k], "startup")]
                 ELSE << >>
    /\ outcome' = "none"
    /\ UNCHANGED << cfg, status, vortex_found, web_clicked, iteration, firstPub,
                    phase, missRun >>

\* detect, lines 257-260: a call for a kind without candidates logs a
\* warning and returns None.
RECURSIVE WithWarnings(_, _)
WithWarnings(lg, nocand) ==
    IF lg = << >> THEN << >>
    ELSE (IF Head(lg).ev = "detect" /\ Head(lg).arg \in nocand
          THEN << Ev("warning", Head(lg).arg, "detect"), Head(lg) >>
          ELSE << Head(lg) >>)
         \o WithWarnings(Tail(lg), nocand)

SessionFrame ==
    [width |-> calc.out.val.capture_region.width,
     height |-> calc.out.val.capture_region.height]

\* The padded search box of the session's window (the window exists).
SessionBox == PadWindow(calc.in.window[1], calc.out.val.capture_region)

\* The padded box is constructible but nothing of it lies in the frame.
BoxOutsideFrame ==
    /\ calc.in.window # << >>
    /\ SessionBox.tag = "ok"
    /\ LET clip == ClipBox(SessionBox.val.bbox, SessionFrame) IN
       clip.x2 <= clip.x1 \/ clip.y2 <= clip.y1

\* Computing the padded box raises.
BoxRaises == calc.in.window # << >> /\ SessionBox.tag # "ok"

\* Mutant of Undetectable: the search box is not taken into account.
Undetectable_CandidatesOnly == NoCandidates(calc.out.val.assets, cfg.legacy)

\* Kinds detect cannot report in this session: those without a template
\* candidate, and "vortex" when its search box misses the frame.
Undetectable ==
    NoCandidates(calc.out.val.assets, cfg.legacy)
    \cup (IF BoxOutsideFrame THEN {"vortex"} ELSE { })

\* One complete iteration of the loop in the session's environment.
SessionTick ==
    /\ CanTick /\ calc.fn = "scanner"
    /\ ~(Phase(cfg, vortex_found, web_clicked) = "vortex" /\ BoxRaises)
    /\ \E frame \in Frames :
          /\ frame \cap Undetectable = { }
          /\ LET ops == TickOps(cfg, status, vortex_found, web_clicked, frame,
                                calc.in.window # << >>)
                 s == Run(Bundle, ops, Len(ops)) IN
             Commit([s EXCEPT !.log = WithWarnings(@, NoCandidates(calc.out.val.assets,
                                                                   cfg.legacy))])
          /\ missRun' = IF WebMiss(cfg, vortex_found, web_clicked, frame)
                        THEN missRun + 1 ELSE 0
    /\ pc' = "loop"
    /\ outcome' = "ok"
    /\ UNCHANGED << cfg, calc >>

\* An iteration of the vortex branch in which computing the padded box
\* raises: the operations before it have taken effect, then
\* `except Exception` runs and re-raises.
SessionTickRaises ==
    /\ CanTick /\ calc.fn = "scanner"
    /\ Phase(cfg, vortex_found, web_clicked) = "vortex" /\ BoxRaises
    /\ LET ops == TickOps(cfg, status, vortex_found, web_clicked, { }, TRUE)
           k == CHOOSE i \in DOMAIN ops : ops[i].op = "pad" IN
       Commit(Run(Run(Bundle, ops, k - 1), FaultHandlerOps, Len(FaultHandlerOps)))
    /\ pc' = "raised"
    /\ outcome' = "fault"
    /\ UNCHANGED << cfg, missRun, calc >>

SessionNext == Construct \/ Start \/ SessionTick \/ SessionTickRaises \/ LoopExit

SessionSpec == SessionInit /\ [][SessionNext]_vars

\* ------------------------------------------------- claims on the sessions
Constructed == calc.fn = "scanner" /\ calc.out # Pending

NeverScanned ==
    /\ pc \in {"new", "failed"}
    /\ iteration = 0
    /\ Count(log, "capture") = 0 /\ Count(log, "detect") = 0

\* C24: with a required template asset missing, constructing the detector
\* (and so the scanner) fails with the asset-missing error and no scan tick
\* ever runs; with only optional assets missing the construction succeeds.
C24_RequiredAssetsOrNoScan ==
    (calc.fn = "scanner" /\ calc.in.monitors # << >>)
    => LET missing == {"vortex", "web", "wabbajack", "click", "understood",
                       "staging"} \ calc.in.assets IN
       /\ (Constructed /\ missing # { })
          => (calc.out.tag = "FileNotFoundError" /\ pc = "failed")
       /\ missing # { } => NeverScanned
       /\ (Constructed /\ missing = { } /\ calc.in.is_windows)
          => (calc.out.tag = "ok" /\ pc # "failed")

C24_Witness ==
    /\ Constructed /\ pc = "failed"
    /\ calc.in.monitors # << >>
    /\ calc.in.assets = (RequiredAssets \cup OptionalAssets) \ {"staging"}
    /\ calc.out.tag = "FileNotFoundError"

\* C25: a kind whose candidate list is empty is never detected and raises
\* nothing, and the missing template is warned about at startup only, never
\* by a detect call of a tick.
C25_WarnedAtStartupOnly ==
    calc.fn = "scanner"
    => /\ \A k \in DOMAIN log : log[k].ev = "warning" => log[k].res = "startup"
       /\ (Constructed /\ calc.out.tag = "ok")
          => \A kind \in NoCandidates(calc.out.val.assets, cfg.legacy) :
                ~Hit(log, kind)

\* C27: constructing the capture (and so the scanner) with an empty monitor
\* list fails with ValueError before anything is captured or scanned.
C27_EmptyMonitorsFailConstruction ==
    (calc.fn = "scanner" /\ calc.in.monitors = << >>)
    => /\ Constructed => (calc.out.tag = "ValueError" /\ pc = "failed")
       /\ NeverScanned

C27_Witness ==
    /\ Constructed /\ pc = "failed"
    /\ calc.in.monitors = << >>
    /\ calc.in.assets = RequiredAssets \cup OptionalAssets
    /\ calc.out.tag = "ValueError"

\* --------------------------------------------- further claims on the scanner
\* C26: with the vortex workflow off, a web-phase tick searches 'website'
\* first and 'wabbajack' only after 'website' was missed; the first kind
\* detected is clicked and the other is not clicked in that tick.  With the
\* vortex workflow on, 'wabbajack' is never searched for or clicked.
C26_WebsiteBeforeWabbajack ==
    [][ /\ cfg.vortex => (~Searched(log', "wabbajack") /\ ~Clicked(log', "wabbajack"))
        /\ (~cfg.vortex /\ iteration' = iteration + 1 /\ outcome' = "ok"
            /\ phase' = "web")
           => /\ Searched(log', "website")
              /\ \A i \in DOMAIN log' :
                    (log'[i].ev = "detect" /\ log'[i].arg = "wabbajack")
                    => \E k \in 1 .. i - 1 : log'[k] = Ev("detect", "website", "miss")
              /\ Missed(log', "website") => Searched(log', "wabbajack")
              /\ Hit(log', "website")
                 => (Clicked(log', "website") /\ ~Clicked(log', "wabbajack"))
              /\ Hit(log', "wabbajack")
                 => (Clicked(log', "wabbajack") /\ ~Clicked(log', "website"))
              /\ Count(log', "click") <= 1 ]_vars

C26_Witness ==
    /\ ~cfg.vortex /\ outcome = "ok" /\ phase = "web"
    /\ Missed(log, "website") /\ Hit(log, "wabbajack")
    /\ Clicked(log, "wabbajack") /\ ~Clicked(log, "website")

\* C28: at the end of every completed tick the status last handed to the
\* callback agrees with the live status on state, current_action,
\* clicks_count and web_retry_count.
C28_NothingLeftUnpublished ==
    (pc = "loop" /\ iteration > 0 /\ outcome = "ok")
    => /\ lastPub.state = status.state
       /\ lastPub.current_action = status.current_action
       /\ lastPub.clicks_count = status.clicks_count
       /\ lastPub.web_retry_count = status.web_retry_count

\* A tick of a session with the vortex workflow has completed while the
\* padded window box, in image coordinates, lies wholly outside the frame.
TickWithBoxOutside ==
    /\ Constructed /\ calc.out.tag = "ok" /\ cfg.vortex
    /\ calc.in.window # << >> /\ SessionBox.tag = "ok"
    /\ LET b == SessionBox.val.bbox IN
       \/ b.x2 <= 0 \/ b.x1 >= calc.out.val.capture_region.width
       \/ b.y2 <= 0 \/ b.y1 >= calc.out.val.capture_region.height
    /\ pc = "loop" /\ iteration > 0

\* C29 as stated: while the padded Vortex window box lies wholly outside the
\* captured frame, every tick ends without a vortex click, without an error
\* and in state WAITING_FOR_VORTEX.
C29_BoxOutsideKeepsWaiting ==
    TickWithBoxOutside
    => /\ outcome = "ok"
       /\ ~Clicked(log, "vortex") /\ status.errors = << >>
       /\ status.state = WAITING_FOR_VORTEX

\* C29 amended: while the padded Vortex window box lies wholly outside the
\* captured frame, every tick is a vortex-phase tick in which the vortex
\* detection returns none without raising: no vortex click, nothing added to
\* errors, the vortex-found flag stays off, and the tick ends in
\* WAITING_FOR_VORTEX, or in HANDLING_POPUP when it is a legacy-mode tick
\* that found and clicked a popup (popups are searched in the whole frame).
C29_BoxOutsideNeverFindsVortex ==
    TickWithBoxOutside
    => /\ outcome = "ok" /\ phase = "vortex"
       /\ ~Hit(log, "vortex") /\ ~Clicked(log, "vortex")
       /\ status.errors = << >>
       /\ ~vortex_found
       /\ status.state = IF Count(log, "click") > 0 THEN HANDLING_POPUP
                         ELSE WAITING_FOR_VORTEX
       /\ Count(log, "click") > 0 => cfg.legacy

C29_Witness ==
    /\ TickWithBoxOutside /\ iteration = 2
    /\ calc.in.window[1].x1 = 1920 /\ calc.in.force_primary
    /\ Missed(log, "vortex")
    /\ status.state = WAITING_FOR_VORTEX /\ status.errors = << >>

\* C30: wherever the Vortex window is, the vortex phase completes its ticks
\* without raising, so the window's position never leads to ERROR.
C30_WindowPositionNeverRaises ==
    (Constructed /\ calc.out.tag = "ok" /\ calc.in.window # << >>)
    => (pc # "raised" /\ status.state # ERROR)

\* ------------------------------------------- invariants of the scan loop
\* C32: web_retry_count stays within 0..wabbajack_retry_limit in every
\* reachable state, and an action changes it only if it is a tick that took
\* the web branch (vortex, popup and click-dialog ticks, the prologue and
\* the loop exit leave it as it was).
C32_RetryCountBounded ==
    /\ [](status.web_retry_count \in 0..cfg.wabbajack_retry_limit)
    /\ [][ status'.web_retry_count # status.web_retry_count
             => (phase' = "web" /\ iteration' = iteration + 1) ]_vars

C32_Witness ==
    /\ outcome = "ok"
    /\ phase = "web"
    /\ cfg.vortex
    /\ cfg.wabbajack_retry_limit = 2
    /\ status.web_retry_count = cfg.wabbajack_retry_limit
    /\ status.detections = << "vortex" >>

\* C33 (as claimed): every published status has clicks_count equal to the
\* length of detections, neither ever decreases, and no tick raises
\* clicks_count by more than 1.
C33_PublishedClicksMatchDetections ==
    /\ [](lastPub.clicks_count = Len(lastPub.detections))
    /\ [][ /\ lastPub'.clicks_count >= lastPub.clicks_count
           /\ Len(lastPub'.detections) >= Len(lastPub.detections)
           /\ status'.clicks_count <= status.clicks_count + 1 ]_vars

\* C34: with the vortex workflow on, the clicks of a cycle come in the order
\* popups, vortex, website, click dialog: a website click directly follows
\* a vortex click, a click-dialog click directly follows a website click,
\* and a popup or vortex click comes first or follows a popup click or the
\* click that ended the previous cycle (the click dialog in legacy mode, the
\* website click otherwise); no action issues more than one click.
Popups == {"understood", "staging"}

LastClick == IF status.detections = << >> THEN "none"
             ELSE status.detections[Len(status.detections)]

CycleEnd == IF cfg.legacy THEN "click" ELSE "website"

C34_ClicksInCycleOrder ==
    [][ cfg.vortex
        => /\ Count(log', "click") <= 1
           /\ Clicked(log', "website") => LastClick = "vortex"
           /\ Clicked(log', "click") => LastClick = "website"
           /\ \A p \in Popups \cup {"vortex"} :
                 Clicked(log', p) => LastClick \in Popups \cup {"none", CycleEnd}
           /\ ~Clicked(log', "wabbajack") ]_vars

C34_Witness ==
    /\ cfg.vortex
    /\ cfg.legacy
    /\ outcome = "ok"
    /\ Clicked(log, "click")
    /\ status.detections = << "understood", "vortex", "website", "click" >>

\* C35: with the vortex workflow off, the state is WAITING_FOR_WEB from the
\* start of scan_loop on, and IDLE or ERROR only once the loop has stopped;
\* the states of the vortex cycle are never entered, and the Vortex window,
\* the vortex button, the popups and the click dialog are never looked for
\* or clicked.
VortexCycleKinds == {"vortex", "understood", "staging", "click"}

C35_WebOnlyWithoutVortex ==
    (~cfg.vortex /\ pc \in {"loop", "returned", "raised"})
    => /\ status.state \in {WAITING_FOR_WEB, IDLE, ERROR}
       /\ pc = "loop" => status.state = WAITING_FOR_WEB
       /\ (pc = "raised" /\ outcome = "fault") => status.state = ERROR
       /\ outcome = "interrupt" => status.state \in {IDLE, WAITING_FOR_WEB}
       /\ phase \in {"none", "web"}
       /\ \A i \in DOMAIN log :
             /\ log[i].ev \in {"detect", "click"} => log[i].arg \notin VortexCycleKinds
             /\ log[i].ev # "window"
             /\ log[i].ev = "pub" => log[i].arg \in {WAITING_FOR_WEB, IDLE, ERROR}
       /\ \A i \in DOMAIN status.detections :
             status.detections[i] \notin VortexCycleKinds

C35_Witness ==
    /\ ~cfg.vortex
    /\ pc = "loop"
    /\ iteration = 3
    /\ status.state = WAITING_FOR_WEB
    /\ status.detections = << "wabbajack", "website" >>
    /\ Missed(log, "wabbajack")

\* C36: the state is HANDLING_POPUP only with both the vortex workflow and
\* legacy mode on; an action sets or publishes it only as a tick in which
\* the Vortex window was found and a popup detected; and the tick after a
\* popup tick publishes HANDLING_POPUP only if it detects a popup itself.
PopupFound(l) == Hit(l, "understood") \/ Hit(l, "staging")

PublishedIn(l, state) == \E i \in DOMAIN l : l[i].ev = "pub" /\ l[i].arg = state

C36_PopupStateOnlyInPopupTick ==
    /\ [](status.state = HANDLING_POPUP => (cfg.vortex /\ cfg.legacy))
    /\ [][ /\ ( \/ (status'.state = HANDLING_POPUP /\ status' # status)
                \/ PublishedIn(log', HANDLING_POPUP)
                \/ (lastPub'.state = HANDLING_POPUP /\ lastPub' # lastPub) )
              => /\ iteration' = iteration + 1
                 /\ phase' = "vortex"
                 /\ Has(log', "window", "Vortex", "found")
                 /\ PopupFound(log')
           /\ (status.state = HANDLING_POPUP /\ iteration' = iteration + 1
               /\ ~PopupFound(log'))
              => /\ ~PublishedIn(log', HANDLING_POPUP)
                 /\ status'.state # HANDLING_POPUP
                 /\ lastPub' # lastPub => lastPub'.state # HANDLING_POPUP ]_vars

C36_Witness ==
    /\ cfg.vortex /\ cfg.legacy
    /\ outcome = "ok"
    /\ iteration = 2
    /\ status.detections = << "staging" >>
    /\ Has(log, "window", "Vortex", "found")
    /\ ~PopupFound(log)
    /\ lastPub.state = WAITING_FOR_VORTEX

\* C37: with max_iterations = n >= 1 the loop never starts a tick beyond the
\* n-th, and once n ticks are complete the only step is a normal return
\* that publishes nothing and leaves the status, whose state is neither
\* IDLE nor ERROR, as the last tick left it; with max_iterations absent or 0
\* scan_loop never returns that way: it ends only on an interrupt or a
\* fault.
C37_IterationBound ==
    /\ [](cfg.max_iterations >= 1 => iteration <= cfg.max_iterations)
    /\ [](cfg.max_iterations = 0 /\ pc \in {"returned", "raised"}
            => outcome \in {"interrupt", "fault"})
    /\ [][ /\ (pc = "loop" /\ cfg.max_iterations >= 1
               /\ iteration = cfg.max_iterations)
              => (pc' = "returned" /\ outcome' = "ok")
           /\ (pc = "loop" /\ pc' = "returned" /\ outcome' = "ok")
              => /\ cfg.max_iterations >= 1
                 /\ iteration = cfg.max_iterations
                 /\ iteration' = iteration
                 /\ status' = status
                 /\ lastPub' = lastPub
                 /\ status'.state \notin {IDLE, ERROR}
                 /\ log' = << >> ]_vars

C37_Witness ==
    /\ pc = "returned"
    /\ outcome = "ok"
    /\ cfg.max_iterations = 2
    /\ iteration = 2
    /\ status.state = HANDLING_POPUP
    /\ status.clicks_count = 2

\* ================================================ two runs, one threshold
\* Two scanners with the same configuration except for min_matches run
\* side by side on the same frames and the same Vortex window.  A frame
\* gives, per button kind, the number of good matches its template finds;
\* what a run detects in it is decided by detect with the min_matches the
\* handler passes.
PairTicks == 3

FixedMinMatches == 6

\* Mutant of DetectThreshold: every detection uses the configured value.
DetectThreshold_Configured(kind, min_matches) == min_matches

\* The min_matches argument of the detect calls of the three handlers.
DetectThreshold(kind, min_matches) ==
    IF kind = "vortex" THEN min_matches ELSE FixedMinMatches

\* AppConfig.ratio_threshold (its default), passed to every detect call.
RatioThreshold == << 3, 4 >>

\* What knnMatch returns for a template with g good matches in the frame.
KnnOf(g) == Repeat(<< 1, 4 >>, g)

Detected(kind, c, min_matches, frame) ==
    DetectKind([kind |-> kind, use_legacy_buttons |-> c.legacy,
                legacy |-> << KnnOf(frame[kind]) >>,
                new |-> << KnnOf(frame[kind]) >>,
                min_matches |-> DetectThreshold(kind, min_matches),
                ratio |-> RatioThreshold, frame |-> Frame]).val.result # << >>

SeenBy(c, min_matches, frame) ==
    {k \in ButtonType : Detected(k, c, min_matches, frame)}

GoodCounts == {5, 7}

MinMatchPairs == {p \in MinMatches \X MinMatches : p[1] < p[2]}

NoFrame == [k \in ButtonType |-> 0]

\* The frames that differ in the kinds some run may search for.
PairFrames(kinds) ==
    {[k \in ButtonType |-> IF k \in kinds THEN g[k] ELSE 0] :
        g \in [kinds -> GoodCounts]}

\* A scanner after construction (no window setup error).
NewRun(c) ==
    [status |-> InitStatus(c, FALSE), vortex_found |-> FALSE,
     web_clicked |-> FALSE, iteration |-> 0, log |-> << >>,
     lastPub |-> IF c.vortex THEN Snap(InitStatus(c, FALSE)) ELSE NoPub,
     firstPub |-> "none", phase |-> "none"]

BundleOf(r) == [r EXCEPT !.log = << >>, !.phase = "none"]

RunStart(r, c) == Run(BundleOf(r), StartOps(c), Len(StartOps(c)))

RunTick(r, c, min_matches, frame, win) ==
    LET ops == TickOps(c, r.status, r.vortex_found, r.web_clicked,
                       SeenBy(c, min_matches, frame), win) IN
    Run(BundleOf(r), ops, Len(ops))

RunPhase(r) == Phase(cfg, r.vortex_found, r.web_clicked)

PairInit ==
    /\ cfg \in [vortex : BOOLEAN, legacy : BOOLEAN, wabbajack_retry_limit : {1},
                max_iterations : {0}]
    /\ calc \in [fn : {"pair"}, in : [min_matches : MinMatchPairs], out : {Pending}]
    /\ status = InitStatus(cfg, FALSE)
    /\ lastPub = NoPub
    /\ vortex_found = FALSE /\ web_clicked = FALSE /\ iteration = 0
    /\ pc = "init" /\ log = << >> /\ firstPub = "none"
    /\ phase = "none" /\ outcome = "none" /\ missRun = 0

\* Both scanners enter scan_loop.
PairStart ==
    /\ calc.fn = "pair" /\ calc.out = Pending
    /\ calc' = [calc EXCEPT !.out =
                  Ok([runs |-> << RunStart(NewRun(cfg), cfg), RunStart(NewRun(cfg), cfg) >>,
                      frame |-> NoFrame])]
    /\ UNCHANGED Scanner

\* Both scanners complete one tick on the same frame.
PairTick ==
    /\ calc.fn = "pair" /\ calc.out # Pending
    /\ calc.out.val.runs[1].iteration < PairTicks
    /\ LET r == calc.out.val.runs
           kinds == Searchable(RunPhase(r[1])) \cup Searchable(RunPhase(r[2]))
           wins == IF "vortex" \in kinds THEN BOOLEAN ELSE {TRUE} IN
       \E frame \in PairFrames(kinds), win \in wins :
          calc' = [calc EXCEPT !.out =
                     Ok([runs |-> << RunTick(r[1], cfg, calc.in.min_matches[1], frame, win),
                                     RunTick(r[2], cfg, calc.in.min_matches[2], frame, win) >>,
                         frame |-> frame])]
    /\ UNCHANGED Scanner

PairNext == PairStart \/ PairTick

PairSpec == PairInit /\ [][PairNext]_vars

\* ------------------------------------------------ claims on the two runs
Paired == calc.fn = "pair" /\ calc.out # Pending

\* The detections and clicks of a tick that are not about the vortex button.
NonVortex(l) ==
    SelectSeq(l, LAMBDA e : e.ev \in {"detect", "click"} /\ e.arg # "vortex")

VortexDecisions(l) == SelectSeq(l, LAMBDA e : e.ev = "detect" /\ e.arg = "vortex")

\* C38 (as claimed): two runs that differ only in min_matches and see the
\* same frames make the same popup, website/wabbajack and click-dialog
\* detections, with the same results, in every tick.
C38_SameDecisionsInBothRuns ==
    Paired => NonVortex(calc.out.val.runs[1].log) = NonVortex(calc.out.val.runs[2].log)

\* C38 (amended): every popup, website/wabbajack and click-dialog detection
\* a run makes is decided by the fixed threshold of 6 good matches, whatever
\* min_matches is, and every vortex detection by min_matches; a kind is
\* clicked only if detected.  Two runs that differ only in min_matches stay
\* identical through every tick in which their vortex detections agree;
\* once a vortex detection differs they are in different phases and search
\* the same frames for different buttons.
C38_FixedThresholdExceptVortex ==
    /\ [](Paired =>
            \A i \in 1..2 : \A k \in ButtonType :
               LET l == calc.out.val.runs[i].log
                   min_matches == IF k = "vortex" THEN calc.in.min_matches[i] ELSE 6 IN
               /\ Searched(l, k) => (Hit(l, k) <=> calc.out.val.frame[k] >= min_matches)
               /\ Clicked(l, k) => Hit(l, k))
    /\ [][ (Paired /\ calc.out.val.runs[1] = calc.out.val.runs[2]
            /\ VortexDecisions(calc'.out.val.runs[1].log)
                 = VortexDecisions(calc'.out.val.runs[2].log))
           => calc'.out.val.runs[1] = calc'.out.val.runs[2] ]_vars

C38_Witness ==
    /\ Paired
    /\ ~cfg.vortex
    /\ calc.in.min_matches = << 6, 8 >>
    /\ calc.out.val.frame["website"] = 7
    /\ calc.out.val.frame["wabbajack"] = 5
    /\ Clicked(calc.out.val.runs[1].log, "website")
    /\ Clicked(calc.out.val.runs[2].log, "website")
    /\ calc.out.val.runs[2].iteration = 2

\* ------------------------------------------ where the vortex click lands
\* C31 (as claimed): every vortex click lies inside the Vortex window
\* rectangle of its tick.
C31_VortexClickInsideWindow ==
    (Done("vortex_click") /\ calc.out.tag = "ok" /\ calc.out.val # << >>)
    => LET p == calc.out.val[1]  w == calc.in.window IN
       /\ w.x1 <= p[1] /\ p[1] <= w.x2
       /\ w.y1 <= p[2] /\ p[2] <= w.y2

====
